---- MODULE Spec2Model ----
(***************************************************************************)
(* A model of the REST translation layer of linstor-api-py                 *)
(* (src/linstor/linstorapi.py): Linstor._rest_request, its response        *)
(* classification, Linstor.connect / disconnect and MultiLinstor.connect.  *)
(*                                                                         *)
(* The client is single-threaded and blocking.  A call is modelled as a    *)
(* stack of frames (one per active Python function); every action is one   *)
(* step of the frame on top, from one network interaction to the next.     *)
(* The controller and the network are the environment: every network       *)
(* interaction draws its outcome with \E.                                  *)
(***************************************************************************)
EXTENDS Integers, Sequences, FiniteSets, TLC

VARIABLES
    ctrl_host_list,   \* MultiLinstor._ctrl_host_list (a one-element list for a plain Linstor)
    multi,            \* TRUE: the object is a MultiLinstor
    keep_alive,       \* Linstor._keep_alive
    timeout,          \* Linstor._timeout, in seconds
    scope,            \* where the caller is in "with lin:" ("none": the object is not used so)
    ctrl_host,        \* Linstor._ctrl_host
    rest_conn,        \* Linstor._rest_conn
    connected,        \* Linstor._connected
    mode_curl,        \* Linstor._mode_curl
    ctrl_version,     \* Linstor._ctrl_version
    username,         \* Linstor._username
    password,         \* Linstor._password
    allow_insecure,   \* Linstor._allow_insecure
    stack,            \* the active frames of the running call, innermost last
    ret,              \* what the frame that returned last handed to its caller
    call,             \* the operation the caller issued last
    obs,              \* what was observed of the running call (history)
    dec_in,           \* a function of the library on its own: the input
    dec_out           \* a function of the library on its own: the result

vars == <<ctrl_host_list, multi, keep_alive, timeout, scope, ctrl_host, rest_conn, connected, mode_curl,
          ctrl_version, username, password, allow_insecure, stack, ret, call, obs,
          dec_in, dec_out>>

client == <<ctrl_host, rest_conn, connected, mode_curl, ctrl_version, username, password,
            allow_insecure>>

\* what no method of the object changes
config == <<ctrl_host_list, multi, keep_alive, timeout, scope>>

decvars == <<dec_in, dec_out>>

-----------------------------------------------------------------------------
(* Bounds of the model *)

\* longest JSON array a response carries
MaxLen == 2
\* most endpoints in a MultiLinstor list
MaxHosts == 2
\* most failed reads within one caller-issued call that are answered with a
\* reconnect, for a plain Linstor and for a MultiLinstor
MaxReconnects == 2
MaxFailoverReconnects == 1

(* Program constants *)
REST_PORT == 3370
REST_HTTPS_PORT == 3371
API_VERSION_MIN == <<1, 0, 4>>

None == "None"

\* the timeouts a client is constructed with: the default and a short one
Timeouts == {300, 5}

-----------------------------------------------------------------------------
(* JSON values.  An element of an array is an object (its keys are what    *)
(* matters here) or a string; a payload is an array or an object.          *)

JObj(keys, id) == [t |-> "obj", keys |-> keys, s |-> "", id |-> id]
JStr(s) == [t |-> "str", keys |-> <<>>, s |-> s, id |-> 0]

\* a status reply of the controller: carries ret_code
StatusObj(id) == JObj(<<"ret_code", "message">>, id)
\* a domain object (a node, a storage pool, ...): carries no ret_code
DomainObj(id) == JObj(<<"name", "props">>, id)

Elems == {StatusObj(1), StatusObj(2), DomainObj(1), DomainObj(2), JStr("ret_code")}

NoVer == <<>>

Arr(items) == [t |-> "arr", items |-> items, keys |-> <<>>, ver |-> NoVer]
Obj(keys, ver) == [t |-> "obj", items |-> <<>>, keys |-> keys, ver |-> ver]

\* the payload of GET /v1/controller/version
VersionObj(ver) == Obj(<<"version", "rest_api_version">>, ver)

RECURSIVE SeqsUpTo(_, _)
SeqsUpTo(S, n) ==
    IF n = 0 THEN {<<>>}
    ELSE LET shorter == SeqsUpTo(S, n - 1)
         IN  shorter \cup {Append(q, e) : q \in {p \in shorter : Len(p) = n - 1}, e \in S}

\* Python: key in data  (a list: an element equal to key; a dict: a key)
PyIn(key, data) ==
    IF data.t = "arr" THEN \E i \in 1..Len(data.items) : data.items[i] = JStr(key)
    ELSE \E i \in 1..Len(data.keys) : data.keys[i] = key

\* Python: for x in data  (a list: its elements; a dict: its keys)
PyIter(data) ==
    IF data.t = "arr" THEN data.items
    ELSE [i \in 1..Len(data.keys) |-> JStr(data.keys[i])]

-----------------------------------------------------------------------------
(* Results and errors *)

Exc(type, msg) ==
    [type |-> type, msg |-> msg, host |-> 0, method |-> "", path |-> "", status |-> 0,
     causes |-> <<>>, timeout |-> 0,
     at |-> 0]      \* history: the loop position of MultiLinstor.connect that caught it

NoExc == Exc("", "")

RetNone == [kind |-> "none", val |-> <<>>, exc |-> NoExc]
RetList(l) == [kind |-> "list", val |-> l, exc |-> NoExc]
RetTrue == [kind |-> "True", val |-> <<>>, exc |-> NoExc]
RetPyNone == [kind |-> "PyNone", val |-> <<>>, exc |-> NoExc]
\* one response object is returned
RetObj(x) == [kind |-> "obj", val |-> <<x>>, exc |-> NoExc]
Raise(e) == [kind |-> "exc", val |-> <<>>, exc |-> e]

\* a response object: cls(data)
Wrap(cls, data) == [cls |-> cls, data |-> data]

-----------------------------------------------------------------------------
(* Operations of the catalog the model issues *)

Ops == {"API_LST_NODE", "API_CRT_NODE"}

Method(apicall) ==
    CASE apicall \in {"API_CRT_NODE", "API_CRT_STOR_POOL", "API_CRT_RSC_GRP", "API_CRT_VLM_GRP",
                      "API_SPAWN_RSC_DFN", "API_CRT_RSC_DFN", "API_CRT_VLM_DFN",
                      "API_AUTO_PLACE_RSC"} -> "POST"
      [] apicall \in {"API_MOD_RSC_GRP", "API_MOD_VLM_GRP", "API_MOD_VLM"} -> "PUT"
      [] apicall \in {"API_DEL_RSC_GRP", "API_DEL_VLM_GRP", "API_DEL_RSC"} -> "DELETE"
      [] OTHER -> "GET"

Path(apicall) ==
    CASE apicall = "API_VERSION" -> "/v1/controller/version"
      [] apicall = "API_REQ_ERROR_REPORTS" -> "/v1/error-reports"
      [] apicall \in {"API_CRT_RSC_GRP", "API_MOD_RSC_GRP", "API_DEL_RSC_GRP", "API_LST_RSC_GRP",
                      "API_SPAWN_RSC_DFN", "API_CRT_VLM_GRP", "API_MOD_VLM_GRP",
                      "API_DEL_VLM_GRP", "API_LST_VLM_GRP"} -> "/v1/resource-groups"
      [] apicall \in {"API_LST_RSC_DFN", "API_LST_VLM_DFN", "API_LST_SNAPSHOT_DFN",
                      "API_REQ_RSC_CONN_LIST", "API_MOD_VLM", "API_DEL_RSC",
                      "API_CRT_RSC_DFN", "API_CRT_VLM_DFN", "API_AUTO_PLACE_RSC"}
            -> "/v1/resource-definitions"
      [] apicall \in {"API_LST_STOR_POOL"} -> "/v1/view/storage-pools"
      [] apicall \in {"API_LST_RSC"} -> "/v1/view/resources"
      [] apicall \in {"API_LST_KVS"} -> "/v1/key-value-store"
      [] OTHER -> "/v1/nodes"

APICALL2RESPONSE(apicall) ==
    CASE apicall = "API_LST_NODE" -> "NodeListResponse"
      [] apicall = "API_LST_STOR_POOL" -> "StoragePoolListResponse"
      [] apicall = "API_LST_RSC_DFN" -> "ResourceDefinitionResponse"
      [] apicall = "API_LST_RSC_GRP" -> "ResourceGroupResponse"
      [] apicall = "API_LST_VLM_GRP" -> "VolumeGroupResponse"
      [] apicall = "API_LST_VLM_DFN" -> "VolumeDefinitionResponse"
      [] apicall = "API_LST_RSC" -> "ResourceResponse"
      [] apicall = "API_LST_VLM" -> "VolumeResponse"
      [] apicall = "API_LST_SNAPSHOT_DFN" -> "SnapshotResponse"
      [] apicall = "API_REQ_ERROR_REPORTS" -> "ErrorReport"
      [] apicall = "API_LST_CTRL_PROPS" -> "ControllerProperties"
      [] apicall = "API_REQ_RSC_CONN_LIST" -> "ResourceConnectionsResponse"
      [] apicall = "API_LST_STOR_POOL_DFN" -> "StoragePoolDefinitionResponse"
      [] apicall = "API_QRY_MAX_VLM_SIZE" -> "MaxVolumeSizeResponse"
      [] apicall = "API_LST_KVS" -> "KeyValueStoresResponse"
      [] apicall = "API_VERSION" -> "ControllerVersion"
      [] OTHER -> "ApiCallResponse"

-----------------------------------------------------------------------------
(* A response as it is on the wire.  text is what the server meant to     *)
(* send: nothing, bytes that are no JSON, or a JSON payload; z says        *)
(* whether the bytes on the wire are gzip-compressed; gzip is the          *)
(* Content-Encoding header.                                                *)

TextEmpty == [k |-> "empty", data |-> Arr(<<>>)]
TextGarbage == [k |-> "garbage", data |-> Arr(<<>>)]
TextJson(data) == [k |-> "json", data |-> data]

Response(status, gzip, z, text) == [status |-> status, gzip |-> gzip, z |-> z, text |-> text]

\* a variant of decode_response_data that does not look at Content-Encoding
decode_response_data_HeaderIgnored(response) ==
    [ok |-> TRUE, text |-> IF response.z THEN TextGarbage ELSE response.text]

\* _decode_response_data: the bytes json.loads is given, or zlib.error
decode_response_data(response) ==
    IF response.gzip
    THEN IF response.z THEN [ok |-> TRUE, text |-> response.text]
         ELSE [ok |-> FALSE, text |-> TextEmpty]       \* zlib.error: no gzip stream
    ELSE IF response.z THEN [ok |-> TRUE, text |-> TextGarbage] \* compressed bytes, read as they are
         ELSE [ok |-> TRUE, text |-> response.text]

\* a variant of ParseError that leaves the HTTP status out
ParseError_NoStatus(path, status) ==
    [Exc("LinstorError", "Unable to parse REST json data") EXCEPT !.path = path]

ParseError(path, status) ==
    [Exc("LinstorError", "Unable to parse REST json data") EXCEPT !.path = path, !.status = status]

\* a variant of ClassifyData that hands the whole payload to the class in every case
ClassifyData_WholePayload(response_class, data) == <<Wrap(response_class, data)>>

\* the branch of __convert_rest_response that picks the shape of the result
ClassifyData(response_class, data) ==
    IF response_class \in {"ApiCallResponse", "ErrorReport"}
    THEN [i \in 1..Len(PyIter(data)) |-> Wrap(response_class, PyIter(data)[i])]
    ELSE IF PyIn("ret_code", data)
         THEN [i \in 1..Len(PyIter(data)) |-> Wrap("ApiCallResponse", PyIter(data)[i])]
         ELSE <<Wrap(response_class, data)>>

convert_rest_response(apicall, response, path) ==
    LET resp_data == decode_response_data(response)
    IN  IF ~resp_data.ok THEN Raise(Exc("zlib.error", "decompress"))
        ELSE IF resp_data.text.k # "json" THEN Raise(ParseError(path, response.status))
        ELSE RetList(ClassifyData(APICALL2RESPONSE(apicall), resp_data.text.data))

\* a variant of HandleResponse without the status branch: every response is
\* classified by the operation's registered type
HandleResponse_NoStatusBranch(apicall, method, path, response) ==
    convert_rest_response(apicall, response, path)

\* _rest_request, from the response it read to its result (lines 290-304)
HandleResponse(apicall, method, path, response) ==
    IF response.status < 400
    THEN convert_rest_response(apicall, response, path)
    ELSE LET error_data_raw == decode_response_data(response)
         IN  IF ~error_data_raw.ok THEN Raise(Exc("zlib.error", "decompress"))
             ELSE IF error_data_raw.text.k = "empty"
             THEN Raise([Exc("LinstorError", "returned status with no data")
                            EXCEPT !.method = method, !.path = path, !.status = response.status])
             ELSE IF error_data_raw.text.k # "json" THEN Raise(ParseError(path, 0))
             ELSE RetList([i \in 1..Len(PyIter(error_data_raw.text.data)) |->
                              Wrap("ApiCallResponse", PyIter(error_data_raw.text.data)[i])])

-----------------------------------------------------------------------------
(* The client object *)

Schemes == {"linstor", "linstor+ssl"}

\* the i-th controller of the deployment, addressed with no explicit port; the
\* first one with either scheme, the others with the plain scheme (their
\* transport still becomes TLS when the plaintext port redirects)
Uris(i) == {[name |-> i, scheme |-> s, port |-> 0] :
               s \in IF i = 1 THEN Schemes ELSE {"linstor"}}

HostLists == {q \in SeqsUpTo(UNION {Uris(i) : i \in 1..MaxHosts}, MaxHosts) :
                 Len(q) >= 1 /\ \A i \in 1..Len(q) : q[i].name = i}

NoConn == [cls |-> "None", host |-> 0, port |-> 0, open |-> FALSE]
HTTPConnection(host, port) == [cls |-> "HTTPConnection", host |-> host, port |-> port, open |-> FALSE]
HTTPSConnection(host, port) == [cls |-> "HTTPSConnection", host |-> host, port |-> port, open |-> FALSE]

NoneObj == Wrap("None", Arr(<<>>))

\* versions a controller may advertise
Versions == {<<1, 0, 3>>, <<1, 0, 4>>}

\* the responses a controller gives in the state machine
MachineResponses ==
    {Response(200, FALSE, FALSE, TextJson(VersionObj(v))) : v \in Versions}
    \cup {Response(200, FALSE, FALSE, TextJson(Arr(<<DomainObj(1)>>))),
          Response(200, FALSE, FALSE, TextGarbage),
          Response(500, FALSE, FALSE, TextJson(Arr(<<StatusObj(1)>>))),
          Response(500, FALSE, FALSE, TextEmpty)}

\* is_secure_connection
is_secure_connection == rest_conn.cls = "HTTPSConnection"

-----------------------------------------------------------------------------
(* Version comparison *)

RECURSIVE LeadingDigit(_)
LeadingDigit(n) == IF n < 10 THEN n ELSE LeadingDigit(n \div 10)

\* str.startswith("1") of the version string "major.minor.patch"
StartsWith1(v) == LeadingDigit(v[1]) = 1

\* StrictVersion(a) < StrictVersion(b)
VersionLess(a, b) ==
    \/ a[1] < b[1]
    \/ a[1] = b[1] /\ a[2] < b[2]
    \/ a[1] = b[1] /\ a[2] = b[2] /\ a[3] < b[3]

\* the version object has a rest_api_version
HasVersion(w) == w.cls = "ControllerVersion" /\ w.data.t = "obj" /\ w.data.ver # NoVer

\* a variant of VersionRefused that refuses nothing
VersionRefused_Never(v) == FALSE

\* connect, lines 486-487: the controller's version is refused
VersionRefused(v) == ~StartsWith1(v) \/ VersionLess(v, API_VERSION_MIN)

-----------------------------------------------------------------------------
(* Frames *)

Frame(fn, pc) ==
    [fn |-> fn, pc |-> pc, apicall |-> "", reconnect |-> FALSE, own |-> FALSE, i |-> 0,
     errs |-> <<>>, val |-> <<>>]

\* a running _rest_request; own: it carries the operation the caller issued
RestFrame(apicall, reconnect, own) ==
    [Frame("rest", "start") EXCEPT !.apicall = apicall, !.reconnect = reconnect, !.own = own]

ConnectFrame == Frame("connect", "start")

MultiFrame == [Frame("multi", "loop") EXCEPT !.i = 1]

\* self.connect(): MultiLinstor overrides Linstor.connect
SelfConnect == IF multi THEN MultiFrame ELSE ConnectFrame

Top == stack[Len(stack)]
Running(fn, pc) ==
    stack # <<>> /\ Top.fn = fn /\ Top.pc = pc
Idle == stack = <<>>

Pop == SubSeq(stack, 1, Len(stack) - 1)
\* the frame on top goes on at pc
Goto(pc) == [stack EXCEPT ![Len(stack)].pc = pc]
\* the frame on top goes on at pc and calls f
CallFrom(pc, f) == Append(Goto(pc), f)

-----------------------------------------------------------------------------
(* What is observed of the running call.  Reset when the caller issues the *)
(* next operation.                                                         *)

NoReq == [sent |-> FALSE, auth |-> FALSE, secure |-> FALSE, insecure_ok |-> FALSE,
          headers |-> {},
          retry |-> FALSE,  \* it was sent by the call made again after a reconnect
          stale |-> FALSE]  \* it was sent on the transport a read had failed on
NoSendFailure == [seen |-> FALSE, own |-> FALSE, host |-> 0, reconnects |-> 0, sends |-> 0,
                  tried |-> <<>>]
NoTimeout == [seen |-> FALSE, reconnects |-> 0, sends |-> 0, tried |-> <<>>]
NoConnect == [ran |-> FALSE, plain |-> FALSE, creds |-> FALSE, insecure_ok |-> FALSE,
              probe_requests |-> 0, made |-> FALSE, requests |-> 0,
              replaced_open |-> FALSE, probe_open |-> FALSE, probe |-> "",
              probe_headers |-> {}]

ObsInit ==
    [reconnects |-> 0,      \* connect() calls made by the retry handlers of _rest_request
     sends |-> 0,           \* times the caller's own request was put on the wire
     read_failures |-> <<>>,\* the failed reads of the caller's own request, by kind
     timed_out |-> NoTimeout,\* the counts above when a read timed out last
     send_failed |-> NoSendFailure,\* the same when a send failed last, and the endpoint
     tried |-> <<>>,        \* the endpoints Linstor.connect ran for, in order
     wire |-> <<>>,         \* the requests _rest_request put on the wire, in order
     sent_to |-> <<>>,      \* the endpoints the caller's own request was sent to, in order
     stale |-> FALSE,       \* _rest_conn is still the transport a read failed on
     answer |-> <<>>,       \* <<r>> when r was read as the response to the caller's own request
     last_request |-> NoReq,    \* the last request put on the client's transport
     last_connect |-> NoConnect,\* the last run of Linstor.connect up to its transport
     multi_errors |-> <<>>, \* conn_errors of the outermost MultiLinstor.connect when it ended
     multi_index |-> 0]     \* its loop position when it ended

-----------------------------------------------------------------------------
(* The state after construction: Linstor(ctrl_host, keep_alive=...) or     *)
(* MultiLinstor(ctrl_host_list, keep_alive=...)                            *)

NoCall == [kind |-> "none", apicall |-> "", curl |-> FALSE, before |-> <<>>, args |-> <<>>,
           body |-> FALSE,
           got |-> <<>>]    \* history: <<l>> when the operation's listing request returned l

Init ==
    /\ multi \in BOOLEAN
    /\ keep_alive \in BOOLEAN
    /\ timeout \in Timeouts
    /\ multi => timeout = 300      \* the short timeout is followed for the plain Linstor
    /\ scope = "none"
    /\ ctrl_host_list \in HostLists
    /\ ~multi => Len(ctrl_host_list) = 1
    /\ ctrl_host = ctrl_host_list[1]
    /\ rest_conn = NoConn
    /\ connected = FALSE
    /\ mode_curl = FALSE
    /\ ctrl_version = NoneObj
    /\ username = None
    /\ password = None
    /\ allow_insecure = FALSE
    /\ stack = <<>>
    /\ ret = RetNone
    /\ call = NoCall
    /\ obs = ObsInit
    /\ dec_in = [apicall |-> "", response |-> Response(0, FALSE, FALSE, TextEmpty)]
    /\ dec_out = RetNone

-----------------------------------------------------------------------------
(* What the caller does with the object between calls *)

Issue(kind, apicall, frames) ==
    /\ Idle
    /\ stack' = frames
    \* a call that runs no frame (a setter, disconnect) has returned None at once
    /\ ret' = IF frames = <<>> THEN RetPyNone ELSE RetNone
    /\ call' = [kind |-> kind, apicall |-> apicall,
                \* history: a request issued in curl mode, and the transport and the
                \* connection state it found
                curl |-> kind = "rest" /\ mode_curl,
                before |-> IF kind = "rest" /\ mode_curl THEN <<rest_conn, connected>>
                           ELSE <<>>,
                args |-> <<>>, body |-> FALSE, got |-> <<>>]
    /\ obs' = ObsInit

\* lin.connect()
CallConnect ==
    /\ Issue("connect", "", <<SelfConnect>>)
    /\ UNCHANGED <<client, config, decvars>>

\* any operation of the catalog: self._rest_request(apicall, method, path, body)
CallRest(apicall) ==
    /\ Issue("rest", apicall, <<RestFrame(apicall, TRUE, TRUE)>>)
    /\ UNCHANGED <<client, config, decvars>>

\* a variant of CloseIfAny that closes nothing
CloseIfAny_Not(conn) == conn

\* lines 524-525: if self._rest_conn: self._rest_conn.close()
CloseIfAny(conn) == IF conn.cls # "None" THEN [conn EXCEPT !.open = FALSE] ELSE conn

\* a variant of disconnect that also forgets the controller's version
disconnect_ForgetsVersion ==
    /\ Issue("disconnect", "", <<>>)
    /\ connected' = FALSE
    /\ rest_conn' = CloseIfAny(rest_conn)
    /\ ctrl_version' = NoneObj
    /\ UNCHANGED <<ctrl_host, mode_curl, username, password, allow_insecure,
                   config, decvars>>

\* lin.disconnect()
disconnect ==
    /\ Issue("disconnect", "", <<>>)
    /\ connected' = FALSE
    /\ rest_conn' = CloseIfAny(rest_conn)
    /\ UNCHANGED <<ctrl_host, mode_curl, ctrl_version, username, password, allow_insecure,
                   config, decvars>>

\* lin.username = v
SetUsername(v) ==
    /\ Issue("set", "", <<>>)
    /\ username' = v
    /\ UNCHANGED <<ctrl_host, rest_conn, connected, mode_curl, ctrl_version, password,
                   allow_insecure, config, decvars>>

\* lin.password = v
SetPassword(v) ==
    /\ Issue("set", "", <<>>)
    /\ password' = v
    /\ UNCHANGED <<ctrl_host, rest_conn, connected, mode_curl, ctrl_version, username,
                   allow_insecure, config, decvars>>

\* lin.allow_insecure = v
SetAllowInsecure(v) ==
    /\ Issue("set", "", <<>>)
    /\ allow_insecure' = v
    /\ UNCHANGED <<ctrl_host, rest_conn, connected, mode_curl, ctrl_version, username,
                   password, config, decvars>>

\* lin.curl = v
SetCurl(v) ==
    /\ Issue("set", "", <<>>)
    /\ mode_curl' = v
    /\ UNCHANGED <<ctrl_host, rest_conn, connected, ctrl_version, username, password,
                   allow_insecure, config, decvars>>

-----------------------------------------------------------------------------
(* _rest_request *)

\* the frame on top ends with r: a value it returns or an exception it lets through
Return(r) ==
    /\ stack' = Pop
    /\ ret' = r

\* lines 308 and 314: the failed read is answered with a reconnect and a retry
RetryAllowed(reconnect) == keep_alive /\ reconnect

\* line 275: the request carries an Authorization header
SendsAuth == username # None

\* lines 142-146
http_headers == {"User-Agent: PythonLinstor", "Connection: keep-alive", "Accept-Encoding: gzip"}

\* lines 273-277: the headers of a request
RequestHeaders ==
    http_headers \cup (IF SendsAuth THEN {"Authorization: Basic"} ELSE {})

\* a variant of RestDryRun that never holds
RestDryRun_Never == FALSE

\* line 268: the request is printed, not sent
RestDryRun == mode_curl

\* lines 268-270: curl mode prints the command and sends nothing
RestCurl ==
    /\ Running("rest", "start")
    /\ RestDryRun
    /\ Return(RetList(<<>>))
    /\ UNCHANGED <<client, config, call, obs, decvars>>

\* lines 272-285, when building the headers or using the transport raises
RestSendRaises ==
    /\ Running("rest", "start")
    /\ ~RestDryRun
    /\ \/ SendsAuth /\ password = None
          /\ Return(Raise(Exc("TypeError", "str + None")))
       \/ ~(SendsAuth /\ password = None) /\ rest_conn.cls = "None"
          /\ Return(Raise(Exc("AttributeError", "NoneType has no request")))
    /\ UNCHANGED <<client, config, call, obs, decvars>>

\* a variant of SendError that leaves the endpoint out
SendError_NoEndpoint(hp) == Exc("LinstorNetworkError", "Unable to connect")

\* line 285: the network error of a failed send, naming the endpoint
SendError(hp) == [Exc("LinstorNetworkError", "Unable to connect") EXCEPT !.host = hp]

\* lines 272-285: the request is sent (http.client opens a closed transport
\* again), or sending fails in the socket
RestSend ==
    /\ Running("rest", "start")
    /\ ~RestDryRun
    /\ ~(SendsAuth /\ password = None)
    /\ rest_conn.cls # "None"
    /\ \/ /\ rest_conn' = [rest_conn EXCEPT !.open = TRUE]
          /\ stack' = Goto("sent")
          /\ ret' = ret
          /\ obs' = [obs EXCEPT
                       !.sends = IF Top.own THEN @ + 1 ELSE @,
                       !.wire = Append(@, Top.apicall),
                       !.sent_to = IF Top.own THEN Append(@, rest_conn.host) ELSE @,
                       !.last_request = [sent |-> TRUE, auth |-> SendsAuth,
                                         secure |-> is_secure_connection,
                                         insecure_ok |-> allow_insecure,
                                         headers |-> RequestHeaders,
                                         retry |-> ~Top.reconnect,
                                         stale |-> obs.stale],
                       !.last_connect.requests = @ + 1]
       \/ /\ Return(Raise(SendError(ctrl_host.name)))
          /\ obs' = [obs EXCEPT !.send_failed =
                        [seen |-> TRUE, own |-> Top.own, host |-> ctrl_host.name,
                         reconnects |-> obs.reconnects, sends |-> obs.sends,
                         tried |-> obs.tried]]
          /\ UNCHANGED rest_conn
    /\ UNCHANGED <<ctrl_host, connected, mode_curl, ctrl_version, username, password,
                   allow_insecure, config, call, decvars>>

\* lines 288-304: a response, one of responses, is read and classified
RestReadFrom(responses) ==
    /\ Running("rest", "sent")
    /\ \E response \in responses :
          /\ Return(HandleResponse(Top.apicall, Method(Top.apicall), Path(Top.apicall), response))
          /\ obs' = [obs EXCEPT !.answer = IF Top.own THEN <<response>> ELSE @]
    /\ UNCHANGED <<client, config, call, decvars>>

RestRead == RestReadFrom(MachineResponses)

\* lines 305-318: the exceptions of the read that _rest_request has a clause
\* for, and the clauses in the order they are written
ReadExceptions == {"socket.timeout", "socket.error", "BadStatusLine"}
ExceptClauses == <<"socket.timeout", "socket.error", "BadStatusLine">>

\* isinstance: socket.timeout is a subclass of socket.error
IsInstance(kind, cls) == kind = cls \/ (kind = "socket.timeout" /\ cls = "socket.error")

\* a variant of Handler with the socket.error clause written first
Handler_ErrorClauseFirst(kind) ==
    IF IsInstance(kind, "socket.error") THEN "socket.error" ELSE kind

\* the except clause that catches kind: the first one in order that matches
Handler(kind) ==
    ExceptClauses[CHOOSE i \in 1..Len(ExceptClauses) :
                     /\ IsInstance(kind, ExceptClauses[i])
                     /\ \A j \in 1..(i - 1) : ~IsInstance(kind, ExceptClauses[j])]

\* the counts of the call at the moment a read timed out
TimedOut == [seen |-> TRUE, reconnects |-> obs.reconnects, sends |-> obs.sends,
             tried |-> obs.tried]

\* a variant of RestTimeout that marks the client disconnected
RestTimeout_Disconnects ==
    /\ Running("rest", "sent")
    /\ Handler("socket.timeout") = "socket.timeout"
    /\ Return(Raise([Exc("LinstorTimeoutError", "Socket timeout, no data received")
                        EXCEPT !.timeout = timeout]))
    /\ obs' = [obs EXCEPT !.timed_out = TimedOut]
    /\ connected' = FALSE
    /\ UNCHANGED <<ctrl_host, rest_conn, mode_curl, ctrl_version, username, password,
                   allow_insecure, config, call, decvars>>

\* lines 305-306: the read times out
RestTimeout ==
    /\ Running("rest", "sent")
    /\ Handler("socket.timeout") = "socket.timeout"
    /\ Return(Raise([Exc("LinstorTimeoutError", "Socket timeout, no data received")
                        EXCEPT !.timeout = timeout]))
    /\ obs' = [obs EXCEPT !.timed_out = TimedOut]
    /\ UNCHANGED <<client, config, call, decvars>>

\* a variant of RestReadFails that reconnects to the endpoint in use, by
\* Linstor.connect
RestReadFails_SameEndpoint(kind) ==
    /\ Running("rest", "sent")
    /\ Handler(kind) \in {"socket.error", "BadStatusLine"}
    /\ \E closes \in BOOLEAN :
          rest_conn' = IF closes THEN [rest_conn EXCEPT !.open = FALSE] ELSE rest_conn
    /\ IF RetryAllowed(Top.reconnect)
       THEN /\ obs.reconnects < (IF multi THEN MaxFailoverReconnects ELSE MaxReconnects)
            /\ stack' = CallFrom("reconnect", ConnectFrame)
            /\ ret' = ret
            /\ obs' = [obs EXCEPT !.reconnects = @ + 1,
                                  !.stale = TRUE,
                                  !.read_failures = IF Top.own THEN Append(@, kind) ELSE @,
                                  !.timed_out = IF kind = "socket.timeout" THEN TimedOut ELSE @]
       ELSE /\ Return(Raise(IF Handler(kind) = "socket.error"
                            THEN [Exc("LinstorNetworkError", "Error reading response")
                                     EXCEPT !.host = ctrl_host.name]
                            ELSE Exc("BadStatusLine", "")))
            /\ obs' = [obs EXCEPT !.read_failures = IF Top.own THEN Append(@, kind) ELSE @,
                                  !.timed_out = IF kind = "socket.timeout" THEN TimedOut ELSE @]
    /\ UNCHANGED <<ctrl_host, connected, mode_curl, ctrl_version, username, password,
                   allow_insecure, config, call, decvars>>

\* a variant of RestReadFails that makes the call again without a reconnect
RestReadFails_NoReconnect(kind) ==
    /\ Running("rest", "sent")
    /\ Handler(kind) \in {"socket.error", "BadStatusLine"}
    /\ \E closes \in BOOLEAN :
          rest_conn' = IF closes THEN [rest_conn EXCEPT !.open = FALSE] ELSE rest_conn
    /\ IF RetryAllowed(Top.reconnect)
       THEN /\ obs.reconnects < (IF multi THEN MaxFailoverReconnects ELSE MaxReconnects)
            /\ stack' = [stack EXCEPT ![Len(stack)] = RestFrame(Top.apicall, FALSE, Top.own)]
            /\ ret' = ret
            /\ obs' = [obs EXCEPT !.reconnects = @ + 1,
                                  !.stale = TRUE,
                                  !.read_failures = IF Top.own THEN Append(@, kind) ELSE @,
                                  !.timed_out = IF kind = "socket.timeout" THEN TimedOut ELSE @]
       ELSE /\ Return(Raise(IF Handler(kind) = "socket.error"
                            THEN [Exc("LinstorNetworkError", "Error reading response")
                                     EXCEPT !.host = ctrl_host.name]
                            ELSE Exc("BadStatusLine", "")))
            /\ obs' = [obs EXCEPT !.read_failures = IF Top.own THEN Append(@, kind) ELSE @,
                                  !.timed_out = IF kind = "socket.timeout" THEN TimedOut ELSE @]
    /\ UNCHANGED <<ctrl_host, connected, mode_curl, ctrl_version, username, password,
                   allow_insecure, config, call, decvars>>

\* lines 307-318: the read fails in the socket (kind "socket.error") or the
\* connection was closed (kind "BadStatusLine"); http.client may have closed the
\* transport on the way
RestReadFails(kind) ==
    /\ Running("rest", "sent")
    /\ Handler(kind) \in {"socket.error", "BadStatusLine"}
    /\ \E closes \in BOOLEAN :
          rest_conn' = IF closes THEN [rest_conn EXCEPT !.open = FALSE] ELSE rest_conn
    /\ IF RetryAllowed(Top.reconnect)
       THEN /\ obs.reconnects < (IF multi THEN MaxFailoverReconnects ELSE MaxReconnects)
            /\ stack' = CallFrom("reconnect", SelfConnect)
            /\ ret' = ret
            /\ obs' = [obs EXCEPT !.reconnects = @ + 1,
                                  !.stale = TRUE,
                                  !.read_failures = IF Top.own THEN Append(@, kind) ELSE @,
                                  !.timed_out = IF kind = "socket.timeout" THEN TimedOut ELSE @]
       ELSE /\ Return(Raise(IF Handler(kind) = "socket.error"
                            THEN [Exc("LinstorNetworkError", "Error reading response")
                                     EXCEPT !.host = ctrl_host.name]
                            ELSE Exc("BadStatusLine", "")))
            /\ obs' = [obs EXCEPT !.read_failures = IF Top.own THEN Append(@, kind) ELSE @,
                                  !.timed_out = IF kind = "socket.timeout" THEN TimedOut ELSE @]
    /\ UNCHANGED <<ctrl_host, connected, mode_curl, ctrl_version, username, password,
                   allow_insecure, config, call, decvars>>

\* lines 309-310 and 315-316, after self.connect() came back: its exception goes
\* through, otherwise the call is made again with reconnect=False and its result
\* is this call's result (a tail call: the frame is replaced)
RestRetry ==
    /\ Running("rest", "reconnect")
    /\ IF ret.kind = "exc"
       THEN Return(ret)
       ELSE /\ stack' = [stack EXCEPT ![Len(stack)] = RestFrame(Top.apicall, FALSE, Top.own)]
            /\ ret' = RetNone
    /\ UNCHANGED <<client, config, call, obs, decvars>>

-----------------------------------------------------------------------------
(* Linstor.connect *)

\* what the plaintext port does with the probe of has_linstor_https: the
\* connection is refused, the probe is answered without a redirect, or it is
\* answered with 302 and a Location on the https port
ProbeOutcomes == {"refused", "no_redirect", "redirect"}

\* has_linstor_https: the https port of the redirect, otherwise 0
\* (redirect_8443: the Location names another port; redirect_noport: the
\* Location names no port, and urlparse(...).port is None)
has_linstor_https(outcome) ==
    CASE outcome = "redirect" -> REST_HTTPS_PORT
      [] outcome = "redirect_8443" -> 8443
      [] OTHER -> 0

\* line 439, conn.request("GET", "/v1/controller/version"): no headers are
\* given, the request carries the ones http.client adds by itself
ProbeHeaders == {"Host", "Accept-Encoding: identity"}

\* the HTTP requests has_linstor_https got onto the wire
ProbeRequests(outcome) == IF outcome = "refused" THEN 0 ELSE 1

\* lines 436-446: has_linstor_https returns without conn.close(); the
\* connection it opened is open until the interpreter reclaims the object
ProbeLeftOpen(outcome) == outcome # "refused"

\* a variant of SecureScheme that knows the linstor+ssl scheme only
SecureScheme_SslOnly(url) == url.scheme = "linstor+ssl"

\* line 461
SecureScheme(url) == url.scheme \in {"linstor+ssl", "https"}

\* a variant of AuthGuard that reads the flag the wrong way round
AuthGuard_FlagInverted == username # None /\ allow_insecure

\* line 479: a plaintext transport is refused
AuthGuard == username # None /\ ~allow_insecure

\* lines 454-456: curl mode
ConnectCurl ==
    /\ Running("connect", "start")
    /\ mode_curl
    /\ connected' = TRUE
    /\ Return(RetTrue)
    /\ UNCHANGED <<ctrl_host, rest_conn, mode_curl, ctrl_version, username, password,
                   allow_insecure, config, call, obs, decvars>>

\* lines 457-485: the scheme and port are resolved (with the probe of the
\* plaintext port), the transport is made and opened and the version is asked for
ConnectStartWith(probes) ==
    /\ Running("connect", "start")
    /\ ~mode_curl
    \* reclaimed: the objects connect() drops (the transport it replaces, the
    \* connection of the probe) are collected, and their sockets closed, at once
    /\ \E probe \in probes, opens \in BOOLEAN, reclaimed \in BOOLEAN :
          LET url == ctrl_host
              url_port == IF url.port # 0 THEN url.port ELSE REST_PORT
              https_port == IF SecureScheme(url) THEN 0 ELSE has_linstor_https(probe)
              is_https == SecureScheme(url) \/ https_port # 0
              port == IF SecureScheme(url)
                      THEN (IF url.port = 0 THEN REST_HTTPS_PORT ELSE url_port)
                      ELSE (IF https_port # 0 THEN https_port ELSE url_port)
              conn == IF is_https THEN HTTPSConnection(url.name, port)
                      ELSE HTTPConnection(url.name, port)
              seen == [ran |-> TRUE, plain |-> ~is_https, creds |-> username # None,
                       insecure_ok |-> allow_insecure,
                       probe_requests |-> IF SecureScheme(url) THEN 0 ELSE ProbeRequests(probe),
                       made |-> TRUE, requests |-> 0,
                       replaced_open |-> rest_conn.open /\ ~reclaimed,
                       probe_open |-> ProbeLeftOpen(probe) /\ ~reclaimed,
                       probe |-> probe,
                       probe_headers |-> IF SecureScheme(url) \/ ProbeRequests(probe) = 0
                                         THEN {} ELSE ProbeHeaders]
          IN  /\ SecureScheme(url) => probe = "refused"   \* no probe: the choice is void
              /\ ~(rest_conn.open \/ ProbeLeftOpen(probe)) => reclaimed \* nothing to reclaim
              /\ IF ~is_https /\ AuthGuard
                 THEN /\ opens                            \* nothing to open: the choice is void
                      /\ Return(Raise(Exc("LinstorNetworkError",
                                          "Password authentication with HTTP not allowed")))
                      /\ rest_conn' = rest_conn
                      /\ obs' = [obs EXCEPT !.tried = Append(@, url.name),
                                            !.last_connect =
                                                [seen EXCEPT !.made = FALSE,
                                                             !.replaced_open = FALSE]]
                 ELSE /\ obs' = [obs EXCEPT !.tried = Append(@, url.name),
                                            !.last_connect = seen,
                                            !.stale = FALSE]
                      /\ IF opens
                         THEN /\ rest_conn' = [conn EXCEPT !.open = TRUE]
                              /\ stack' = CallFrom("version", RestFrame("API_VERSION", TRUE, FALSE))
                              /\ ret' = RetNone
                         ELSE /\ rest_conn' = conn
                              /\ Return(Raise([Exc("LinstorNetworkError", "Unable to connect")
                                                 EXCEPT !.host = url.name]))
    /\ UNCHANGED <<ctrl_host, connected, mode_curl, ctrl_version, username, password,
                   allow_insecure, config, call, decvars>>

ConnectStart == ConnectStartWith(ProbeOutcomes)

\* lines 485-496 (and controller_version, lines 2022-2032), after the version
\* query came back
ConnectVersion ==
    /\ Running("connect", "version")
    /\ IF ret.kind = "exc"
       THEN /\ Return(ret)
            /\ UNCHANGED <<rest_conn, connected, ctrl_version>>
       ELSE IF ret.val = <<>>
       THEN /\ Return(Raise(Exc("IndexError", "list index out of range")))
            /\ UNCHANGED <<rest_conn, connected, ctrl_version>>
       ELSE /\ ctrl_version' = ret.val[1]
            /\ IF ~HasVersion(ret.val[1])
               THEN /\ Return(Raise(Exc("AttributeError", "rest_api_version")))
                    /\ UNCHANGED <<rest_conn, connected>>
               ELSE IF VersionRefused(ret.val[1].data.ver)
               THEN /\ rest_conn' = [rest_conn EXCEPT !.open = FALSE]
                    /\ Return(Raise(Exc("LinstorApiCallError",
                                        "Client doesn't support Controller rest api version")))
                    /\ UNCHANGED connected
               ELSE /\ connected' = TRUE
                    /\ Return(RetTrue)
                    /\ UNCHANGED rest_conn
    /\ UNCHANGED <<ctrl_host, mode_curl, username, password, allow_insecure, config, call,
                   obs, decvars>>

-----------------------------------------------------------------------------
(* MultiLinstor.connect *)

\* the frame on top is the outermost MultiLinstor.connect of the call
Outermost == \A j \in 1..(Len(stack) - 1) : stack[j].fn # "multi"

ObsMultiEnd ==
    IF Outermost THEN [obs EXCEPT !.multi_errors = Top.errs, !.multi_index = Top.i] ELSE obs

\* a variant of CollectError that keeps the last error only
CollectError_LastOnly(conn_errors, lne) == <<lne>>

\* line 2490: conn_errors.append(lne)
CollectError(conn_errors, lne) == Append(conn_errors, lne)

\* lines 2485-2488: the next endpoint is tried
MultiTry ==
    /\ Running("multi", "loop")
    /\ Top.i <= Len(ctrl_host_list)
    /\ ctrl_host' = ctrl_host_list[Top.i]
    /\ stack' = CallFrom("wait", ConnectFrame)
    /\ ret' = RetNone
    /\ UNCHANGED <<rest_conn, connected, mode_curl, ctrl_version, username, password,
                   allow_insecure, config, call, obs, decvars>>

\* a variant of MultiAfter whose except clause catches every error
MultiAfter_AnyError ==
    /\ Running("multi", "wait")
    /\ IF ret.kind = "exc"
       THEN /\ stack' = [stack EXCEPT ![Len(stack)].pc = "loop",
                                      ![Len(stack)].i = @ + 1,
                                      ![Len(stack)].errs =
                                          CollectError(@, [ret.exc EXCEPT !.at = Top.i])]
            /\ ret' = RetNone
            /\ obs' = obs
       ELSE /\ Return(ret)
            /\ obs' = ObsMultiEnd
    /\ UNCHANGED <<client, config, call, decvars>>

\* lines 2488-2490: the endpoint's connect came back
MultiAfter ==
    /\ Running("multi", "wait")
    /\ IF ret.kind = "exc" /\ ret.exc.type = "LinstorNetworkError"
       THEN /\ stack' = [stack EXCEPT ![Len(stack)].pc = "loop",
                                      ![Len(stack)].i = @ + 1,
                                      ![Len(stack)].errs =
                                          CollectError(@, [ret.exc EXCEPT !.at = Top.i])]
            /\ ret' = RetNone
            /\ obs' = obs
       ELSE /\ Return(ret)
            /\ obs' = ObsMultiEnd
    /\ UNCHANGED <<client, config, call, decvars>>

\* lines 2492-2493: the list is used up
MultiFail ==
    /\ Running("multi", "loop")
    /\ Top.i > Len(ctrl_host_list)
    /\ IF Len(Top.errs) = Len(ctrl_host_list)
       THEN Return(Raise([Exc("LinstorNetworkError",
                              "Unable to connect to any of the given controller hosts")
                             EXCEPT !.causes = Top.errs]))
       ELSE Return(RetPyNone)
    /\ obs' = ObsMultiEnd
    /\ UNCHANGED <<client, config, call, decvars>>

-----------------------------------------------------------------------------
(* The client as a state machine *)

Next ==
    \/ CallConnect
    \/ \E apicall \in Ops : CallRest(apicall)
    \/ disconnect
    \/ \E v \in {None, "user"} : SetUsername(v)
    \/ \E v \in {None, "secret"} : SetPassword(v)
    \/ \E v \in BOOLEAN : SetAllowInsecure(v)
    \/ \E v \in BOOLEAN : SetCurl(v)
    \/ RestCurl
    \/ RestSendRaises
    \/ RestSend
    \/ RestRead
    \/ RestTimeout
    \/ \E kind \in ReadExceptions : RestReadFails(kind)
    \/ RestRetry
    \/ ConnectCurl
    \/ ConnectStart
    \/ ConnectVersion
    \/ MultiTry
    \/ MultiAfter
    \/ MultiFail

Spec == Init /\ [][Next]_vars

TypeOK ==
    /\ multi \in BOOLEAN /\ keep_alive \in BOOLEAN /\ connected \in BOOLEAN
    /\ ret.kind \in {"none", "list", "True", "PyNone", "exc"}
    /\ obs.reconnects \in 0..MaxReconnects

-----------------------------------------------------------------------------
(* The client as a scoped resource:  with Linstor(...) as lin: <calls>     *)
(* __enter__ is connect(); the body runs only when __enter__ returned;      *)
(* __exit__ is disconnect() and runs when the body ends, normally or by the *)
(* exception of one of its calls, and does not run when __enter__ raised.   *)

InitScoped ==
    /\ multi \in BOOLEAN
    /\ keep_alive \in BOOLEAN
    /\ timeout = 300
    /\ scope = "out"
    /\ ctrl_host_list \in HostLists
    /\ ~multi => Len(ctrl_host_list) = 1
    /\ ctrl_host = ctrl_host_list[1]
    /\ rest_conn = NoConn
    /\ connected = FALSE
    /\ mode_curl = FALSE
    /\ ctrl_version = NoneObj
    /\ username = None
    /\ password = None
    /\ allow_insecure = FALSE
    /\ stack = <<>>
    /\ ret = RetNone
    /\ call = NoCall
    /\ obs = ObsInit
    /\ dec_in = [apicall |-> "", response |-> Response(0, FALSE, FALSE, TextEmpty)]
    /\ dec_out = RetNone

\* lines 151-153: __enter__
ScopeEnter ==
    /\ scope = "out"
    /\ Issue("connect", "", <<SelfConnect>>)
    /\ scope' = "enter"
    /\ UNCHANGED <<client, ctrl_host_list, multi, keep_alive, timeout, decvars>>

\* __enter__ raised: the with statement is left without __exit__
ScopeEnterRaised == scope = "enter" /\ Idle /\ ret.kind = "exc"

\* a call in the body, made when __enter__ or the call before it has returned
ScopeBody(apicall) ==
    /\ scope \in {"enter", "body"}
    /\ Idle /\ ret.kind # "exc"
    /\ Issue("rest", apicall, <<RestFrame(apicall, TRUE, TRUE)>>)
    /\ scope' = "body"
    /\ UNCHANGED <<client, ctrl_host_list, multi, keep_alive, timeout, decvars>>

\* lines 155-156: __exit__, when the body has ended or a call of it has raised
ScopeExit ==
    /\ scope \in {"enter", "body"}
    /\ Idle /\ ~ScopeEnterRaised
    /\ scope' = "exited"
    /\ connected' = FALSE
    /\ rest_conn' = CloseIfAny(rest_conn)
    /\ UNCHANGED <<ctrl_host, mode_curl, ctrl_version, username, password, allow_insecure,
                   ctrl_host_list, multi, keep_alive, timeout, stack, ret, call, obs, decvars>>

NextScoped ==
    \/ ScopeEnter
    \/ \E apicall \in Ops : ScopeBody(apicall)
    \/ ScopeExit
    \/ RestSend
    \/ RestRead
    \/ RestTimeout
    \/ \E kind \in ReadExceptions : RestReadFails(kind)
    \/ RestRetry
    \/ ConnectStart
    \/ ConnectVersion
    \/ MultiTry
    \/ MultiAfter
    \/ MultiFail

SpecScoped == InitScoped /\ [][NextScoped]_vars

-----------------------------------------------------------------------------
(* The operations of the catalog that do more than build a request: the    *)
(* ones that declare a minimum server version, the ones that validate      *)
(* their arguments, and the accessors that expect exactly one typed        *)
(* result.  A plain Linstor without keep-alive, from construction.         *)

\* the versions a controller advertises here
OpsVersions == {<<1, 0, 3>>, <<1, 0, 4>>, <<1, 0, 6>>, <<1, 0, 8>>, <<2, 0, 0>>, <<10, 0, 0>>}

\* the responses a controller gives here
\* a resource as GET /v1/view/resources lists it: the first has DISKLESS
\* among its flags, the second has not
DisklessRsc == JObj(<<"name", "node_name", "flags">>, 1)
DiskfulRsc == JObj(<<"name", "node_name", "flags">>, 2)

\* the requests of resource_create_and_auto_place, in the order it makes them
PlaceSteps == {"API_CRT_RSC_DFN", "API_CRT_VLM_DFN", "API_AUTO_PLACE_RSC"}

OpsResponses ==
    IF stack # <<>> /\ Top.apicall = "API_VERSION"
    THEN {Response(200, FALSE, FALSE, TextJson(VersionObj(v))) : v \in OpsVersions}
    ELSE IF stack # <<>> /\ Top.apicall = "API_LST_RSC"
    THEN {Response(200, FALSE, FALSE, TextJson(Arr(<<DisklessRsc>>))),
          Response(200, FALSE, FALSE, TextJson(Arr(<<DiskfulRsc>>))),
          Response(200, FALSE, FALSE, TextJson(Arr(<<>>))),
          Response(500, FALSE, FALSE, TextJson(Arr(<<StatusObj(1)>>))),
          Response(500, FALSE, FALSE, TextJson(Arr(<<>>)))}
    ELSE IF stack # <<>> /\ Top.apicall \in PlaceSteps
    THEN {Response(201, FALSE, FALSE, TextJson(Arr(<<StatusObj(0)>>))),
          Response(201, FALSE, FALSE, TextJson(Arr(<<StatusObj(0), StatusObj(1)>>))),
          Response(200, FALSE, FALSE, TextJson(Arr(<<StatusObj(1), StatusObj(0)>>))),
          Response(201, FALSE, FALSE, TextJson(Arr(<<>>))),
          Response(500, FALSE, FALSE, TextJson(Arr(<<StatusObj(1)>>)))}
    ELSE {Response(200, FALSE, FALSE, TextJson(Arr(<<DomainObj(1)>>))),
          Response(200, FALSE, FALSE, TextJson(Arr(<<>>))),
          Response(500, FALSE, FALSE, TextJson(Arr(<<StatusObj(1)>>))),
          Response(500, FALSE, FALSE, TextJson(Arr(<<>>)))}

InitOps ==
    /\ multi = FALSE
    /\ keep_alive = FALSE
    /\ timeout = 300
    /\ scope = "none"
    /\ ctrl_host_list = <<[name |-> 1, scheme |-> "linstor", port |-> 0]>>
    /\ ctrl_host = ctrl_host_list[1]
    /\ rest_conn = NoConn
    /\ connected = FALSE
    /\ mode_curl = FALSE
    /\ ctrl_version = NoneObj
    /\ username = None
    /\ password = None
    /\ allow_insecure = FALSE
    /\ stack = <<>>
    /\ ret = RetNone
    /\ call = NoCall
    /\ obs = ObsInit
    /\ dec_in = [apicall |-> "", response |-> Response(0, FALSE, FALSE, TextEmpty)]
    /\ dec_out = RetNone

\* the caller calls operation op with args; the operation has run up to its
\* first request (frames) or has ended at once (r); body: it built a request body
IssueOp(op, args, body, frames, r) ==
    /\ Idle
    /\ stack' = frames
    /\ ret' = r
    /\ call' = [kind |-> "op", apicall |-> op, curl |-> FALSE, before |-> <<>>,
                args |-> args, body |-> body, got |-> <<>>]
    /\ obs' = ObsInit

\* the operations that start with self._require_version(...)
GroupOps ==
    {"resource_group_create", "resource_group_modify", "resource_group_delete",
     "resource_group_list_raise", "resource_group_spawn", "volume_group_create",
     "volume_group_modify", "volume_group_delete", "volume_group_list_raise"}

\* the version an operation passes to _require_version (NoVer: it does not call it)
RequiredVersion(op) ==
    CASE op \in GroupOps -> <<1, 0, 8>>
      [] op = "volume_modify" -> <<1, 0, 6>>
      [] OTHER -> NoVer

\* the apicall id an operation passes to _rest_request
ApiCall(op) ==
    CASE op = "resource_group_create" -> "API_CRT_RSC_GRP"
      [] op = "resource_group_modify" -> "API_MOD_RSC_GRP"
      [] op = "resource_group_delete" -> "API_DEL_RSC_GRP"
      [] op = "resource_group_list_raise" -> "API_LST_RSC_GRP"
      [] op = "resource_group_spawn" -> "API_SPAWN_RSC_DFN"
      [] op = "volume_group_create" -> "API_CRT_VLM_GRP"
      [] op = "volume_group_modify" -> "API_MOD_VLM_GRP"
      [] op = "volume_group_delete" -> "API_DEL_VLM_GRP"
      [] op = "volume_group_list_raise" -> "API_LST_VLM_GRP"
      [] op = "volume_modify" -> "API_MOD_VLM"
      [] op = "node_create" -> "API_CRT_NODE"
      [] op = "storage_pool_create" -> "API_CRT_STOR_POOL"
      [] op = "node_list_raise" -> "API_LST_NODE"
      [] op = "storage_pool_list_raise" -> "API_LST_STOR_POOL"
      [] op = "resource_dfn_list_raise" -> "API_LST_RSC_DFN"
      [] op = "volume_list_raise" -> "API_LST_RSC"
      [] op = "resource_conn_list_raise" -> "API_REQ_RSC_CONN_LIST"
      [] op = "snapshot_dfn_list_raise" -> "API_LST_SNAPSHOT_DFN"
      [] op = "keyvaluestores" -> "API_LST_KVS"
      [] OTHER -> ""

VersionTooLow ==
    Exc("LinstorError", "Volume modify not supported by server, REST-API-VERSION")

\* a variant of require_version that lets every version through
require_version_Skipped(required_version) == NoExc

\* _require_version, lines 245-256: the exception it raises, NoExc when it returns
\* a variant of require_version that takes a missing version for an old one
require_version_NoneIsOld(required_version) ==
    IF required_version = NoVer THEN NoExc
    ELSE IF ctrl_version = NoneObj THEN VersionTooLow
    ELSE IF ~HasVersion(ctrl_version) THEN Exc("AttributeError", "rest_api_version")
    ELSE IF VersionLess(ctrl_version.data.ver, required_version) THEN VersionTooLow
    ELSE NoExc

require_version(required_version) ==
    IF required_version = NoVer \/ ctrl_version = NoneObj THEN NoExc
    ELSE IF ~HasVersion(ctrl_version) THEN Exc("AttributeError", "rest_api_version")
    ELSE IF VersionLess(ctrl_version.data.ver, required_version) THEN VersionTooLow
    ELSE NoExc

\* the operations that check the version, build the body and hand the request
\* to _rest_request, whose result is theirs
PlainVersionedOps ==
    {"resource_group_create", "resource_group_modify", "resource_group_delete",
     "volume_group_create", "volume_group_modify", "volume_group_delete", "volume_modify"}

\* lines 1073, 1137, 1176, 1248, 1279, 1303, 1896 and what follows them
VersionedOp(op) ==
    /\ LET gate == require_version(RequiredVersion(op))
       IN  IF gate # NoExc
           THEN IssueOp(op, <<>>, FALSE, <<>>, Raise(gate))
           ELSE IssueOp(op, <<>>, TRUE, <<RestFrame(ApiCall(op), TRUE, TRUE)>>, RetNone)
    /\ UNCHANGED <<client, config, decvars>>

\* lines 100-105
node_types == {"Controller", "Auxiliary", "Combined", "Satellite"}

\* the node types, communication types and ports a caller passes here (0: port=None)
NodeTypeArgs == {"Controller", "Satellite", "Gateway"}
ComTypeArgs == {"PLAIN", "SSL", "TCP"}
PortArgs == {0, 3366}

\* _require_node_is_active, lines 527-537: the exception it raises, NoExc when it returns
require_node_is_active ==
    IF ctrl_version # NoneObj /\ ~HasVersion(ctrl_version)
    THEN Exc("AttributeError", "rest_api_version")
    ELSE NoExc

\* node_create, lines 560-590: the exception it raises before the request
node_create_check(node_type, com_type, port) ==
    IF node_type \notin node_types THEN Exc("LinstorError", "Unknown node type")
    ELSE IF port = 0 /\ com_type \notin {"PLAIN", "SSL"}
         THEN Exc("LinstorError", "Communication type has no default port")
    ELSE require_node_is_active

\* lines 539-592
node_create(node_type, com_type, port) ==
    /\ LET e == node_create_check(node_type, com_type, port)
           args == <<node_type, com_type, port>>
       IN  IF e # NoExc
           THEN IssueOp("node_create", args, FALSE, <<>>, Raise(e))
           ELSE IssueOp("node_create", args, TRUE, <<RestFrame("API_CRT_NODE", TRUE, TRUE)>>,
                        RetNone)
    /\ UNCHANGED <<client, config, decvars>>

\* StoragePoolDriver.list(): the provider kinds of the library
StorageDrivers == {"LVM", "LVM_THIN", "ZFS", "ZFS_THIN", "DISKLESS", "FILE", "FILE_THIN"}

\* the storage drivers a caller passes here
StorageDriverArgs == {"LVM", "ZFS", "BTRFS"}

\* lines 879-922
storage_pool_create(storage_driver) ==
    /\ IF storage_driver \notin StorageDrivers
       THEN IssueOp("storage_pool_create", <<storage_driver>>, FALSE, <<>>,
                    Raise(Exc("LinstorError", "Unknown storage driver")))
       ELSE IssueOp("storage_pool_create", <<storage_driver>>, TRUE,
                    <<RestFrame("API_CRT_STOR_POOL", TRUE, TRUE)>>, RetNone)
    /\ UNCHANGED <<client, config, decvars>>

\* SizeCalc.UNITS_MAP: the unit suffixes it knows, lower case ("": none given, GiB)
SizeUnits == {"", "k", "kib", "m", "mib", "g", "gib", "t", "tib"}

\* a volume size a caller passes: an int, a str or something else (a float);
\* of a str, whether it starts with digits, and what follows them, lower case
Size(t, digits, unit) == [t |-> t, digits |-> digits, unit |-> unit]
SizeArgs ==
    {Size("int", TRUE, ""), Size("float", TRUE, ""), Size("str", TRUE, ""),
     Size("str", TRUE, "gib"), Size("str", FALSE, "g"), Size("str", TRUE, "gx")}

\* the lists of volume sizes a caller passes here
MaxSizes == 2
SizeLists == UNION {[1..n -> SizeArgs] : n \in 0..MaxSizes}

\* parse_volume_size_to_kib, lines 203-236: the exception it raises, NoExc when it returns
parse_volume_size_check(size_str) ==
    IF ~size_str.digits THEN Exc("LinstorArgumentError", "is not a valid number")
    ELSE IF size_str.unit \notin SizeUnits THEN Exc("LinstorArgumentError", "is not a valid unit")
    ELSE NoExc

\* lines 1212-1218, one element of vlm_sizes
spawn_size_check(size) ==
    IF size.t = "int" THEN NoExc
    ELSE IF size.t = "str" THEN parse_volume_size_check(size)
    ELSE Exc("LinstorError", "Volume size has no valid type")

\* lines 1211-1218: the exception of the first element of vlm_sizes that raises one
RECURSIVE spawn_sizes_check(_)
spawn_sizes_check(vlm_sizes) ==
    IF vlm_sizes = <<>> THEN NoExc
    ELSE IF spawn_size_check(Head(vlm_sizes)) # NoExc THEN spawn_size_check(Head(vlm_sizes))
    ELSE spawn_sizes_check(Tail(vlm_sizes))

\* lines 1197-1231
resource_group_spawn(vlm_sizes) ==
    /\ LET gate == require_version(RequiredVersion("resource_group_spawn"))
           e == IF gate # NoExc THEN gate ELSE spawn_sizes_check(vlm_sizes)
       IN  IF e # NoExc
           THEN IssueOp("resource_group_spawn", <<vlm_sizes>>, FALSE, <<>>, Raise(e))
           ELSE IssueOp("resource_group_spawn", <<vlm_sizes>>, TRUE,
                        <<RestFrame("API_SPAWN_RSC_DFN", TRUE, TRUE)>>, RetNone)
    /\ UNCHANGED <<client, config, decvars>>

\* the accessors that make one listing request and hand its first element on
SimpleAccessors ==
    {"node_list_raise", "storage_pool_list_raise", "resource_group_list_raise",
     "volume_group_list_raise", "volume_list_raise", "resource_conn_list_raise",
     "keyvaluestores"}

\* the class an accessor tests the first element for
ExpectedClass(op) ==
    CASE op = "node_list_raise" -> "NodeListResponse"
      [] op = "storage_pool_list_raise" -> "StoragePoolListResponse"
      [] op = "resource_group_list_raise" -> "ResourceGroupResponse"
      [] op = "volume_group_list_raise" -> "VolumeGroupResponse"
      [] op = "resource_dfn_list_raise" -> "ResourceDefinitionResponse"
      [] op = "volume_list_raise" -> "ResourceResponse"
      [] op = "resource_conn_list_raise" -> "ResourceConnectionsResponse"
      [] op = "snapshot_dfn_list_raise" -> "SnapshotResponse"
      [] OTHER -> "KeyValueStoresResponse"

ApiCallError(reply) == [Exc("LinstorApiCallError", "") EXCEPT !.causes = <<reply>>]

\* a variant of first_or_raise that hands the first element on unseen
first_or_raise_Unseen(list_res, cls) ==
    IF list_res # <<>> THEN RetObj(list_res[1])
    ELSE Raise(Exc("LinstorError", "No list response received."))

\* the end of every accessor, e.g. lines 755-760
first_or_raise(list_res, cls) ==
    IF list_res # <<>>
    THEN IF list_res[1].cls = cls THEN RetObj(list_res[1])
         ELSE Raise(ApiCallError(list_res[1]))
    ELSE Raise(Exc("LinstorError", "No list response received."))

\* storage_pool_list, lines 989-996, and volume_list, lines 1854-1859:
\* the typed results first, then the status replies
view_list(res, cls) ==
    LET typed == res # <<>> /\ res[1].cls = cls
        result == IF typed THEN res ELSE <<>>
        errors == IF typed THEN <<>> ELSE res
    IN  result \o errors

AccFrame(op, pc) == [Frame("acc", pc) EXCEPT !.apicall = op]

\* resource_dfn_list(); val: rsc_dfns_resp once it is there
DfnListFrame == Frame("rsc_dfn_list", "dfns")

\* an accessor is called and runs up to its first request
AccessorCall(op) ==
    /\ LET gate == require_version(RequiredVersion(op))
       IN  IF gate # NoExc THEN IssueOp(op, <<>>, FALSE, <<>>, Raise(gate))
           ELSE IF op \in SimpleAccessors
           THEN IssueOp(op, <<>>, FALSE,
                        <<AccFrame(op, "list"), RestFrame(ApiCall(op), TRUE, FALSE)>>, RetNone)
           ELSE IssueOp(op, <<>>, FALSE,
                        <<AccFrame(op, "rsc_dfns"), DfnListFrame,
                          RestFrame("API_LST_RSC_DFN", TRUE, FALSE)>>, RetNone)
    /\ UNCHANGED <<client, config, decvars>>

\* lines 755-760 and the like: the listing request has ended
AccessorList ==
    /\ Running("acc", "list")
    /\ IF ret.kind = "exc"
       THEN Return(ret) /\ UNCHANGED call
       ELSE LET op == Top.apicall
                list_res == IF op \in {"storage_pool_list_raise", "volume_list_raise"}
                            THEN view_list(ret.val, ExpectedClass(op))
                            ELSE ret.val
            IN  /\ Return(first_or_raise(list_res, ExpectedClass(op)))
                /\ call' = [call EXCEPT !.got = <<ret.val>>]
    /\ UNCHANGED <<client, config, obs, decvars>>

\* rsc_dfns_resp[0].resource_definitions, line 1417: how many there are
\* (ApiCallResponse has no such attribute)
resource_definitions(resp) == Len(resp.data.items)

\* resource_dfn_list, lines 1415-1417: the listing request has ended
DfnListGot ==
    /\ Running("rsc_dfn_list", "dfns")
    /\ call' = IF ret.kind = "exc" \/ call.got # <<>> THEN call
               ELSE [call EXCEPT !.got = <<ret.val>>]
    /\ IF ret.kind = "exc" THEN Return(ret)
       ELSE IF ret.val = <<>> THEN Return(Raise(Exc("IndexError", "list index out of range")))
       ELSE IF ret.val[1].cls # "ResourceDefinitionResponse"
       THEN Return(Raise(Exc("AttributeError", "resource_definitions")))
       ELSE IF resource_definitions(ret.val[1]) = 0 THEN Return(ret)
       ELSE /\ stack' = Append([stack EXCEPT ![Len(stack)].pc = "vlm",
                                              ![Len(stack)].i = 1,
                                              ![Len(stack)].val = ret.val],
                               RestFrame("API_LST_VLM_DFN", TRUE, FALSE))
            /\ ret' = RetNone
    /\ UNCHANGED <<client, config, obs, decvars>>

\* resource_dfn_list, lines 1419-1426: a volume definition request has ended
DfnListVlm ==
    /\ Running("rsc_dfn_list", "vlm")
    /\ IF ret.kind = "exc" THEN Return(ret)
       ELSE IF ret.val = <<>> THEN Return(Raise(Exc("IndexError", "list index out of range")))
       ELSE IF Top.i < resource_definitions(Top.val[1])
       THEN /\ stack' = Append([stack EXCEPT ![Len(stack)].i = Top.i + 1],
                               RestFrame("API_LST_VLM_DFN", TRUE, FALSE))
            /\ ret' = RetNone
       ELSE Return(RetList(Top.val))
    /\ UNCHANGED <<client, config, call, obs, decvars>>

\* resource_dfn_list_raise, lines 1437-1442: resource_dfn_list has ended
DfnAccessor ==
    /\ Running("acc", "rsc_dfns")
    /\ Top.apicall = "resource_dfn_list_raise"
    /\ IF ret.kind = "exc" THEN Return(ret)
       ELSE Return(first_or_raise(ret.val, ExpectedClass(Top.apicall)))
    /\ UNCHANGED <<client, config, call, obs, decvars>>

\* the accessor ends with the one SnapshotResponse of snapshot_dfn_list
SnapshotEnd == Return(first_or_raise(<<Wrap("SnapshotResponse", Arr(<<>>))>>, "SnapshotResponse"))

\* snapshot_dfn_list, line 2333: resource_dfn_list has ended
SnapshotDfns ==
    /\ Running("acc", "rsc_dfns")
    /\ Top.apicall = "snapshot_dfn_list_raise"
    /\ IF ret.kind = "exc" THEN Return(ret)
       ELSE IF resource_definitions(ret.val[1]) = 0 THEN SnapshotEnd
       ELSE /\ stack' = Append([stack EXCEPT ![Len(stack)].pc = "snapshots",
                                              ![Len(stack)].i = 1,
                                              ![Len(stack)].val = ret.val],
                               RestFrame("API_LST_SNAPSHOT_DFN", TRUE, FALSE))
            /\ ret' = RetNone
    /\ UNCHANGED <<client, config, call, obs, decvars>>

\* snapshot_dfn_list, lines 2336-2344: a snapshot request has ended
SnapshotLoop ==
    /\ Running("acc", "snapshots")
    /\ IF ret.kind = "exc" THEN Return(ret)
       ELSE IF Top.i < resource_definitions(Top.val[1])
       THEN /\ stack' = Append([stack EXCEPT ![Len(stack)].i = Top.i + 1],
                               RestFrame("API_LST_SNAPSHOT_DFN", TRUE, FALSE))
            /\ ret' = RetNone
       ELSE SnapshotEnd
    /\ UNCHANGED <<client, config, call, obs, decvars>>

\* lines 1782-1784 and 1788, 1800: ApiCallResponse({"ret_code": MASK_SUCCESS, "message": ...})
SynthesizedSuccess == Wrap("ApiCallResponse", JObj(<<"ret_code", "message">>, 0))

\* bool(response), line 1787: a response object without data is false
Truthy(response) == response.data.t # "arr" \/ response.data.items # <<>>

\* a variant of flag_diskless that finds the flag on every resource
flag_diskless_Always(response) == TRUE

\* line 1797: FLAG_DISKLESS in rsc_list_reply.resources[0].flags
flag_diskless(response) == response.data.items[1] = DisklessRsc

\* lines 1771-1786: resource_delete_if_diskless up to its resource_list()
resource_delete_if_diskless ==
    /\ IssueOp("resource_delete_if_diskless", <<>>, FALSE,
               <<AccFrame("resource_delete_if_diskless", "rsc_list"),
                 RestFrame("API_LST_RSC", TRUE, FALSE)>>, RetNone)
    /\ UNCHANGED <<client, config, decvars>>

\* lines 1786-1801 (with volume_list, lines 1854-1859, and resource_delete,
\* lines 1766-1769): the list has come back
DisklessListed ==
    /\ Running("acc", "rsc_list")
    /\ IF ret.kind = "exc"
       THEN Return(ret) /\ UNCHANGED call
       ELSE LET rsc_list_replies == view_list(ret.val, "ResourceResponse")
            IN  /\ call' = [call EXCEPT !.got = <<rsc_list_replies>>]
                /\ IF rsc_list_replies = <<>> \/ ~Truthy(rsc_list_replies[1])
                   THEN Return(RetList(<<SynthesizedSuccess>>))
                   ELSE IF rsc_list_replies[1].cls = "ApiCallResponse"
                   THEN Return(RetList(rsc_list_replies))
                   ELSE IF flag_diskless(rsc_list_replies[1])
                   THEN /\ stack' = Append(Pop, RestFrame("API_DEL_RSC", TRUE, FALSE))
                        /\ ret' = RetNone
                   ELSE Return(RetList(<<SynthesizedSuccess>>))
    /\ UNCHANGED <<client, config, obs, decvars>>

\* replies[0].is_success(): the return code of the first reply has no error
\* or warning bits
first_is_success(replies) == replies[1].data = StatusObj(0)

\* lines 1720, with resource_dfn_create, lines 1363-1367
resource_create_and_auto_place ==
    /\ IssueOp("resource_create_and_auto_place", <<>>, FALSE,
               <<AccFrame("resource_create_and_auto_place", "rsc_dfn"),
                 RestFrame("API_CRT_RSC_DFN", TRUE, FALSE)>>, RetNone)
    /\ UNCHANGED <<client, config, decvars>>

\* lines 1721-1729: a step's replies have come back
PlaceStep ==
    /\ stack # <<>> /\ Top.fn = "acc" /\ Top.pc \in {"rsc_dfn", "vlm_dfn"}
    /\ IF ret.kind = "exc"
       THEN Return(ret) /\ UNCHANGED call
       ELSE LET replies == ret.val
            IN  /\ call' = [call EXCEPT !.got = Append(@, replies)]
                /\ IF replies = <<>>
                   THEN Return(Raise(Exc("IndexError", "list index out of range")))
                   ELSE IF ~first_is_success(replies)
                   THEN Return(RetList(replies))
                   ELSE IF Top.pc = "rsc_dfn"
                   THEN /\ stack' = CallFrom("vlm_dfn", RestFrame("API_CRT_VLM_DFN", TRUE, FALSE))
                        /\ ret' = RetNone
                   ELSE /\ stack' = Append(Pop, RestFrame("API_AUTO_PLACE_RSC", TRUE, FALSE))
                        /\ ret' = RetNone
    /\ UNCHANGED <<client, config, obs, decvars>>

NextOps ==
    \/ CallConnect
    \/ disconnect
    \/ \E v \in BOOLEAN : SetCurl(v)
    \/ \E op \in PlainVersionedOps : VersionedOp(op)
    \/ \E node_type \in NodeTypeArgs, com_type \in ComTypeArgs, port \in PortArgs :
          node_create(node_type, com_type, port)
    \/ \E storage_driver \in StorageDriverArgs : storage_pool_create(storage_driver)
    \/ \E vlm_sizes \in SizeLists : resource_group_spawn(vlm_sizes)
    \/ \E op \in SimpleAccessors \cup {"resource_dfn_list_raise", "snapshot_dfn_list_raise"} :
          AccessorCall(op)
    \/ AccessorList
    \/ resource_delete_if_diskless
    \/ DisklessListed
    \/ resource_create_and_auto_place
    \/ PlaceStep
    \/ DfnListGot
    \/ DfnListVlm
    \/ DfnAccessor
    \/ SnapshotDfns
    \/ SnapshotLoop
    \/ RestCurl
    \/ RestSendRaises
    \/ RestSend
    \/ RestReadFrom(OpsResponses)
    \/ RestTimeout
    \/ \E kind \in ReadExceptions : RestReadFails(kind)
    \/ ConnectCurl
    \/ ConnectStart
    \/ ConnectVersion

SpecOps == InitOps /\ [][NextOps]_vars

-----------------------------------------------------------------------------
(* The choice of the transport: one plain Linstor per controller URI, with *)
(* any scheme, with and without an explicit port, against a plaintext port *)
(* that answers the probe of connect() in any way.                         *)

TransportUris ==
    {[name |-> 1, scheme |-> scheme, port |-> port] :
        scheme \in {"linstor", "linstor+ssl", "https", "http"}, port \in {0, 4000}}

TransportProbes == {"refused", "no_redirect", "redirect", "redirect_8443", "redirect_noport"}

InitTransport ==
    /\ multi = FALSE
    /\ keep_alive = FALSE
    /\ timeout = 300
    /\ scope = "none"
    /\ ctrl_host_list \in {<<uri>> : uri \in TransportUris}
    /\ ctrl_host = ctrl_host_list[1]
    /\ rest_conn = NoConn
    /\ connected = FALSE
    /\ mode_curl = FALSE
    /\ ctrl_version = NoneObj
    /\ username = None
    /\ password = None
    /\ allow_insecure = FALSE
    /\ stack = <<>>
    /\ ret = RetNone
    /\ call = NoCall
    /\ obs = ObsInit
    /\ dec_in = [apicall |-> "", response |-> Response(0, FALSE, FALSE, TextEmpty)]
    /\ dec_out = RetNone

NextTransport ==
    \/ CallConnect
    \/ disconnect
    \/ ConnectStartWith(TransportProbes)
    \/ ConnectVersion
    \/ RestSend
    \/ RestRead
    \/ RestTimeout
    \/ \E kind \in ReadExceptions : RestReadFails(kind)

SpecTransport == InitTransport /\ [][NextTransport]_vars

-----------------------------------------------------------------------------
(* Response classification on its own: _rest_request from the response it  *)
(* read to its result, over the operations of APICALL2RESPONSE, one        *)
(* operation that is not in it, and the payloads up to MaxLen elements.    *)

DecodeOps ==
    {"API_LST_NODE", "API_LST_STOR_POOL", "API_LST_RSC_DFN", "API_LST_RSC_GRP",
     "API_LST_VLM_GRP", "API_LST_VLM_DFN", "API_LST_RSC", "API_LST_VLM",
     "API_LST_SNAPSHOT_DFN", "API_REQ_ERROR_REPORTS", "API_LST_CTRL_PROPS",
     "API_REQ_RSC_CONN_LIST", "API_LST_STOR_POOL_DFN", "API_QRY_MAX_VLM_SIZE",
     "API_LST_KVS", "API_VERSION", "API_CRT_NODE"}

DecodeStatuses == {200, 399, 400, 500}

DecodePayloads ==
    {Arr(q) : q \in SeqsUpTo(Elems, MaxLen)}
    \cup {VersionObj(<<1, 0, 4>>), Obj(<<"ret_code", "message">>, NoVer)}

DecodeTexts == {TextEmpty, TextGarbage} \cup {TextJson(d) : d \in DecodePayloads}

DecodeResponses ==
    {Response(st, gz, z, t) : st \in DecodeStatuses, gz \in BOOLEAN, z \in BOOLEAN,
                              t \in DecodeTexts}

InitDecode ==
    /\ multi = FALSE
    /\ keep_alive = FALSE
    /\ timeout = 300
    /\ scope = "none"
    /\ ctrl_host_list = <<[name |-> 1, scheme |-> "linstor", port |-> 0]>>
    /\ ctrl_host = ctrl_host_list[1]
    /\ rest_conn = NoConn
    /\ connected = FALSE
    /\ mode_curl = FALSE
    /\ ctrl_version = NoneObj
    /\ username = None
    /\ password = None
    /\ allow_insecure = FALSE
    /\ stack = <<>>
    /\ ret = RetNone
    /\ call = NoCall
    /\ obs = ObsInit
    /\ dec_in \in [apicall : DecodeOps, response : DecodeResponses]
    /\ dec_out = RetNone

Classify ==
    /\ dec_out = RetNone
    /\ dec_out' = HandleResponse(dec_in.apicall, Method(dec_in.apicall), Path(dec_in.apicall),
                                 dec_in.response)
    /\ UNCHANGED <<client, config, stack, ret, call, obs, dec_in>>

NextDecode == Classify

SpecDecode == InitDecode /\ [][NextDecode]_vars

-----------------------------------------------------------------------------
(* MultiLinstor.controller_uri_list on its own.  A string is the sequence  *)
(* of its characters.                                                      *)

\* longest controller list
MaxChars == 6

Chars == {"h", ",", ":", "/"}

ControllerLists == SeqsUpTo(Chars, MaxChars)

\* str.split(','): the pieces between the commas, empty ones included
RECURSIVE split(_)
split(str) ==
    IF \A i \in 1..Len(str) : str[i] # "," THEN <<str>>
    ELSE LET i == CHOOSE j \in 1..Len(str) :
                      str[j] = "," /\ \A k \in 1..(j - 1) : str[k] # ","
         IN  <<SubSeq(str, 1, i - 1)>> \o split(SubSeq(str, i + 1, Len(str)))

\* a variant of HasScheme that finds a scheme in no entry
HasScheme_Never(hp) == FALSE

\* line 2507: '://' in hp
HasScheme(hp) ==
    \E i \in 1..(Len(hp) - 2) : hp[i] = ":" /\ hp[i + 1] = "/" /\ hp[i + 2] = "/"

\* "linstor://"
LinstorScheme == <<"l", "i", "n", "s", "t", "o", "r", ":", "/", "/">>

\* lines 2505-2510: the loop over the pieces
RECURSIVE servers_of(_)
servers_of(pieces) ==
    IF pieces = <<>> THEN <<>>
    ELSE LET hp == Head(pieces)
             rest == servers_of(Tail(pieces))
         IN  IF hp # <<>>
             THEN IF HasScheme(hp) THEN <<hp>> \o rest
                  ELSE <<LinstorScheme \o hp>> \o rest
             ELSE rest

\* lines 2495-2511
controller_uri_list(controller_list) == servers_of(split(controller_list))

InitUriList ==
    /\ multi = TRUE
    /\ keep_alive = FALSE
    /\ timeout = 300
    /\ scope = "none"
    /\ ctrl_host_list = <<[name |-> 1, scheme |-> "linstor", port |-> 0]>>
    /\ ctrl_host = ctrl_host_list[1]
    /\ rest_conn = NoConn
    /\ connected = FALSE
    /\ mode_curl = FALSE
    /\ ctrl_version = NoneObj
    /\ username = None
    /\ password = None
    /\ allow_insecure = FALSE
    /\ stack = <<>>
    /\ ret = RetNone
    /\ call = NoCall
    /\ obs = ObsInit
    /\ dec_in \in ControllerLists
    /\ dec_out = RetNone

ExpandUriList ==
    /\ dec_out = RetNone
    /\ dec_out' = RetList(controller_uri_list(dec_in))
    /\ UNCHANGED <<client, config, stack, ret, call, obs, dec_in>>

NextUriList == ExpandUriList

SpecUriList == InitUriList /\ [][NextUriList]_vars

-----------------------------------------------------------------------------
(* return_if_failure and return_if_error on their own.  A reply is known   *)
(* by the category its return code encodes.                                *)

\* longest list of replies
MaxReplies == 3

Categories == {"success", "error", "warning"}

ReplyLists == SeqsUpTo(Categories, MaxReplies)

\* ApiCallResponse.is_success and is_error: the category bits of the return code
is_success(r) == r = "success"
is_error(r) == r = "error"

\* lines 357-366
all_api_responses_no_error(replies) == \A i \in 1..Len(replies) : ~is_error(replies[i])

\* lines 368-377
all_api_responses_success(replies) == \A i \in 1..Len(replies) : is_success(replies[i])

\* lines 390-400
return_if_failure(replies_) ==
    IF ~all_api_responses_success(replies_) THEN RetList(replies_) ELSE RetPyNone

\* lines 402-412
return_if_error(replies_) ==
    IF ~all_api_responses_no_error(replies_) THEN RetList(replies_) ELSE RetPyNone

InitReplies ==
    /\ multi = FALSE
    /\ keep_alive = FALSE
    /\ timeout = 300
    /\ scope = "none"
    /\ ctrl_host_list = <<[name |-> 1, scheme |-> "linstor", port |-> 0]>>
    /\ ctrl_host = ctrl_host_list[1]
    /\ rest_conn = NoConn
    /\ connected = FALSE
    /\ mode_curl = FALSE
    /\ ctrl_version = NoneObj
    /\ username = None
    /\ password = None
    /\ allow_insecure = FALSE
    /\ stack = <<>>
    /\ ret = RetNone
    /\ call = NoCall
    /\ obs = ObsInit
    /\ dec_in \in [fn : {"return_if_failure", "return_if_error"}, replies : ReplyLists]
    /\ dec_out = RetNone

ReturnIfFailure ==
    /\ dec_out = RetNone
    /\ dec_in.fn = "return_if_failure"
    /\ dec_out' = return_if_failure(dec_in.replies)
    /\ UNCHANGED <<client, config, stack, ret, call, obs, dec_in>>

ReturnIfError ==
    /\ dec_out = RetNone
    /\ dec_in.fn = "return_if_error"
    /\ dec_out' = return_if_error(dec_in.replies)
    /\ UNCHANGED <<client, config, stack, ret, call, obs, dec_in>>

NextReplies == ReturnIfFailure \/ ReturnIfError

SpecReplies == InitReplies /\ [][NextReplies]_vars

-----------------------------------------------------------------------------
(* Vocabulary of the properties *)

\* the call the caller issued has come back
Done(kind) == Idle /\ call.kind = kind /\ ret.kind # "none"

Raised(type) == ret.kind = "exc" /\ ret.exc.type = type

IsNetworkError(e) == e.type = "LinstorNetworkError"

\* the classification has been applied to dec_in
Decoded == dec_out # RetNone

\* the body on the wire is encoded as its Content-Encoding says
WellEncoded(response) == response.gzip = response.z

\* an element that carries a ret_code field
HasRetCode(x) == x.t = "obj" /\ \E i \in 1..Len(x.keys) : x.keys[i] = "ret_code"

\* the operation is mapped to a structured response type
Structured(apicall) == APICALL2RESPONSE(apicall) \notin {"ApiCallResponse", "ErrorReport"}

\* a payload that is a JSON array arrived and was decoded
ArrayArrived == Decoded /\ WellEncoded(dec_in.response) /\ dec_in.response.text.k = "json"
                /\ dec_in.response.text.data.t = "arr"

DecItems == dec_in.response.text.data.items

\* one wrapper of class cls per element, in the array's order
OnePerElement(result, cls, items) ==
    /\ result.kind = "list"
    /\ Len(result.val) = Len(items)
    /\ \A i \in 1..Len(items) : result.val[i] = Wrap(cls, items[i])

-----------------------------------------------------------------------------
(* Response classification: C8, C9, C10 (SpecDecode) *)

\* C8: for an operation mapped to a structured response type, a status < 400
\* array payload whose elements all carry ret_code is returned as one status
\* reply per element, and any other array as exactly one instance of the
\* structured type wrapping the whole array.
C8_StructuredShape ==
    (/\ ArrayArrived /\ dec_in.response.status < 400 /\ Structured(dec_in.apicall)
     /\ \A i \in 1..Len(DecItems) : DecItems[i].t = "obj") =>
        IF DecItems # <<>> /\ \A i \in 1..Len(DecItems) : HasRetCode(DecItems[i])
        THEN OnePerElement(dec_out, "ApiCallResponse", DecItems)
        ELSE dec_out = RetList(<<Wrap(APICALL2RESPONSE(dec_in.apicall),
                                      dec_in.response.text.data)>>)

\* C9 as claimed: for every operation not mapped to a structured type, a
\* status < 400 array payload is returned as one status reply per element, in
\* the array's order.
C9_StatusReplyPerElement ==
    (ArrayArrived /\ dec_in.response.status < 400 /\ ~Structured(dec_in.apicall)) =>
        OnePerElement(dec_out, "ApiCallResponse", DecItems)

\* C9 as amended: for every operation not mapped to a structured type, a
\* status < 400 array payload is returned as one wrapper per element, in the
\* array's order; the wrapper is the status reply, except for the error-report
\* operation, where it is the error report.
C9_WrapperPerElement ==
    (ArrayArrived /\ dec_in.response.status < 400 /\ ~Structured(dec_in.apicall)) =>
        OnePerElement(dec_out,
                      IF dec_in.apicall = "API_REQ_ERROR_REPORTS" THEN "ErrorReport"
                      ELSE "ApiCallResponse",
                      DecItems)

\* C9, witness: an operation outside the table got two elements back as two
\* status replies.
C9_Witness ==
    /\ ArrayArrived /\ dec_in.response.status < 400
    /\ dec_in.apicall = "API_CRT_NODE"
    /\ DecItems = <<StatusObj(2), StatusObj(1)>>
    /\ dec_out.kind = "list" /\ Len(dec_out.val) = 2

-----------------------------------------------------------------------------
(* The retry policy: C1, C2 *)

ReadError == [Exc("LinstorNetworkError", "Error reading response") EXCEPT !.host = ctrl_host.name]

\* C1: with keep-alive, a read-time socket failure of the first attempt of a
\* call is answered with exactly one reconnect (one connect()) and at most one
\* more send of the same request; when the second attempt fails at read time
\* too, the call ends in a network error.
C1_OneReconnectOneRetry ==
    (call.kind = "rest" /\ keep_alive /\ obs.read_failures # <<>>
     /\ obs.read_failures[1] = "socket.error") =>
        /\ obs.reconnects = 1
        /\ obs.sends <= 2
        /\ (Idle /\ obs.read_failures = <<"socket.error", "socket.error">>) =>
               (ret = Raise(ReadError) /\ obs.sends = 2)

\* C2: no call, and no connect(), makes more than one reconnect.
C2_ReconnectsCapped == obs.reconnects <= 1

-----------------------------------------------------------------------------
(* connect: C3, C4, C5 *)

\* C3: whenever connect() ends in the version-incompatibility error, the
\* client is Disconnected.
C3_VersionGateDisconnects == Raised("LinstorApiCallError") => ~connected

GuardError == Exc("LinstorNetworkError", "Password authentication with HTTP not allowed")

\* the last run of Linstor.connect took place with credentials set and
\* allow_insecure off, and resolved to a plaintext transport
PlainWithCredentials ==
    /\ obs.last_connect.ran /\ obs.last_connect.plain
    /\ obs.last_connect.creds /\ ~obs.last_connect.insecure_ok

\* C4 as claimed: with credentials set and allow_insecure off, a connect()
\* that resolves to plaintext fails and no HTTP request at all, the probe of
\* the plaintext port included, has been sent.
C4_NoRequestAtAll ==
    PlainWithCredentials =>
        /\ ~obs.last_connect.made
        /\ obs.last_connect.requests = 0
        /\ obs.last_connect.probe_requests = 0

\* C4 as amended: with credentials set and allow_insecure off, a connect()
\* that resolves to plaintext fails before it makes a transport, and no request
\* has been sent on the client's transport; only the probe of the plaintext
\* port, which carries no credentials, may have been sent.
C4_NoTransportNoRequest ==
    PlainWithCredentials =>
        /\ ~obs.last_connect.made
        /\ obs.last_connect.requests = 0

\* C4, witness: connect() of a plain Linstor has just failed on the guard,
\* after the plaintext port answered the probe.
C4_Witness ==
    /\ PlainWithCredentials
    /\ Done("connect") /\ ~multi
    /\ ret = Raise(GuardError)
    /\ obs.last_connect.probe_requests = 1

\* C5: a request that carries the Authorization header goes over TLS, or
\* allow_insecure is on.
C5_AuthOnlyOverTls ==
    (obs.last_request.sent /\ obs.last_request.auth) =>
        (obs.last_request.secure \/ obs.last_request.insecure_ok)

-----------------------------------------------------------------------------
(* MultiLinstor.connect: C6, C7 *)

Aggregate(causes) ==
    [Exc("LinstorNetworkError", "Unable to connect to any of the given controller hosts")
        EXCEPT !.causes = causes]

\* C6: when MultiLinstor.connect() succeeds at the k-th endpoint, the
\* endpoints were tried in list order, each of 1..k and none after the k-th;
\* the client is Connected to the k-th endpoint and each endpoint before it
\* left exactly one network error.
C6_FailoverInOrder ==
    (Done("connect") /\ multi /\ ~mode_curl /\ ret.kind = "True") =>
        LET k == obs.multi_index
        IN  /\ \A j \in 1..Len(obs.tried) : obs.tried[j] <= k
            /\ \A j \in 1..(Len(obs.tried) - 1) : obs.tried[j] <= obs.tried[j + 1]
            /\ \A i \in 1..k : \E j \in 1..Len(obs.tried) : obs.tried[j] = i
            /\ connected
            /\ ctrl_host = ctrl_host_list[k]
            /\ rest_conn.host = k
            /\ Len(obs.multi_errors) = k - 1
            /\ \A i \in 1..(k - 1) : IsNetworkError(obs.multi_errors[i])

\* C7: MultiLinstor.connect() ends with a value or an error; a network error
\* it ends in is the aggregate error, which carries one network error per
\* endpoint, the i-th caught at the i-th endpoint.
C7_AggregateOfAll ==
    (Done("connect") /\ multi) =>
        /\ ret.kind \in {"True", "exc"}
        /\ Raised("LinstorNetworkError") =>
              /\ ret.exc = Aggregate(ret.exc.causes)
              /\ Len(ret.exc.causes) = Len(ctrl_host_list)
              /\ \A i \in 1..Len(ret.exc.causes) :
                    IsNetworkError(ret.exc.causes[i]) /\ ret.exc.causes[i].at = i

\* C7, witness: both endpoints of a two-endpoint list failed and connect()
\* ended in the aggregate of the two errors.
C7_Witness ==
    /\ Done("connect") /\ multi /\ Len(ctrl_host_list) = 2
    /\ Raised("LinstorNetworkError")
    /\ Len(ret.exc.causes) = 2
    /\ ret.exc.causes[1].host = 1 /\ ret.exc.causes[2].host = 2

-----------------------------------------------------------------------------
(* Failures of one request: C11, C12, C13 *)

TimeoutError ==
    [Exc("LinstorTimeoutError", "Socket timeout, no data received") EXCEPT !.timeout = timeout]

\* C11: once a read has timed out, the call ends in the timeout error that
\* states the configured timeout, and nothing more happens in it: no reconnect,
\* no further send of the caller's request, no run of connect().
C11_TimeoutNoRetry ==
    obs.timed_out.seen =>
        /\ ret = Raise(TimeoutError)
        /\ obs.reconnects = obs.timed_out.reconnects
        /\ obs.sends = obs.timed_out.sends
        /\ obs.tried = obs.timed_out.tried

\* C11, witness: with keep-alive, the first attempt of a call timed out at
\* read time and the call has ended in the timeout error.
C11_Witness ==
    /\ Done("rest") /\ keep_alive
    /\ obs.timed_out.seen /\ obs.sends = 1 /\ obs.reconnects = 0
    /\ ret = Raise(TimeoutError) /\ ret.exc.timeout = 5

\* C12: when sending a request fails in the socket, the request ends in a
\* network error that names the endpoint it was meant for; the caller's call
\* ends with it at once, and so does every call of a single-endpoint client:
\* no reconnect, no further send, no run of connect() follows.
C12_SendFailureNoRetry ==
    (obs.send_failed.seen /\ (obs.send_failed.own \/ ~multi)) =>
        /\ ret.kind = "exc"
        /\ ret.exc.type = "LinstorNetworkError"
        /\ ret.exc.msg = "Unable to connect"
        /\ ret.exc.host = obs.send_failed.host
        /\ ret.exc.host = ctrl_host.name
        /\ obs.send_failed.own => Idle
        /\ obs.reconnects = obs.send_failed.reconnects
        /\ obs.sends = obs.send_failed.sends
        /\ obs.tried = obs.send_failed.tried

\* C12, witness: with keep-alive, the first send of a call failed and the call
\* has ended in the network error naming the endpoint.
C12_Witness ==
    /\ Done("rest") /\ keep_alive
    /\ obs.send_failed.seen /\ obs.send_failed.own
    /\ obs.sends = 0 /\ obs.reconnects = 0
    /\ Raised("LinstorNetworkError") /\ ret.exc.host = ctrl_host.name

\* C13: when the read of the caller's request fails in the socket or the
\* connection is closed abruptly, and keep-alive is off or the attempt is the
\* retried one, the call ends at once in a network error: no reconnect and no
\* further send follow.
C13_ReadFailureSurfaces ==
    (/\ call.kind = "rest" /\ obs.read_failures # <<>>
     /\ ~keep_alive \/ Len(obs.read_failures) >= 2) =>
        /\ Idle
        /\ Raised("LinstorNetworkError")
        /\ Len(obs.read_failures) = IF keep_alive THEN 2 ELSE 1
        /\ obs.sends = Len(obs.read_failures)
        /\ ~keep_alive => obs.reconnects = 0

-----------------------------------------------------------------------------
(* Dry-run mode: C14 *)

\* C14: a request issued in curl mode puts nothing on the wire, makes no
\* connect(), leaves the transport and the connection state as it found them,
\* and returns the empty list.
C14_CurlNoIO ==
    (call.kind = "rest" /\ call.curl) =>
        /\ obs.sends = 0 /\ ~obs.last_request.sent
        /\ obs.reconnects = 0 /\ obs.tried = <<>>
        /\ <<rest_conn, connected>> = call.before
        /\ Idle => ret = RetList(<<>>)

\* C14, witness: a request issued in curl mode on a connected client with an
\* open transport has returned the empty list.
C14_Witness ==
    /\ Done("rest") /\ call.curl /\ ret = RetList(<<>>)
    /\ connected /\ rest_conn.open

-----------------------------------------------------------------------------
(* The life of the transport: C15 - C20 *)

\* C15: when connect() ends in an error after its last run made a transport,
\* the transport is closed and the client is Disconnected.
C15_FailedConnectReleases ==
    (Done("connect") /\ ret.kind = "exc" /\ obs.last_connect.made) =>
        /\ ~rest_conn.open
        /\ ~connected

\* the version check of connect() as written at lines 486-487
PassesCheck(w) ==
    /\ HasVersion(w)
    /\ StartsWith1(w.data.ver)
    /\ ~VersionLess(w.data.ver, API_VERSION_MIN)

\* C16: with curl mode off, the client becomes Connected only in the step of
\* connect() that has the answer of the version query in hand, on an open
\* transport, with a version that passes the check; and a connect() that
\* returned True left the client Connected with a stored version that passes.
C16_ConnectedOnlyAfterCheck ==
    /\ []((Done("connect") /\ ~mode_curl /\ ret.kind = "True") =>
             (connected /\ rest_conn.open /\ PassesCheck(ctrl_version)))
    /\ [][(~mode_curl /\ ~connected /\ connected') =>
             /\ stack # <<>> /\ Top.fn = "connect" /\ Top.pc = "version"
             /\ ret.kind = "list" /\ ret.val # <<>>
             /\ PassesCheck(ret.val[1])
             /\ ctrl_version' = ret.val[1]
             /\ rest_conn.open /\ rest_conn' = rest_conn]_vars

\* C16, witness: connect() of a fresh single-endpoint client has returned
\* True against a controller that advertises the minimal version.
C16_Witness ==
    /\ Done("connect") /\ ~multi /\ ~mode_curl /\ ret.kind = "True"
    /\ connected /\ rest_conn.open
    /\ ctrl_version = Wrap("ControllerVersion", VersionObj(API_VERSION_MIN))

\* C17: no run of connect() leaves an open connection behind that the client
\* no longer holds: neither the transport it replaced nor the connection of
\* the redirect probe.
C17_OneLiveTransport ==
    ~obs.last_connect.replaced_open /\ ~obs.last_connect.probe_open

\* C18: after disconnect() the client is Disconnected and its transport, if it
\* has one, is closed; disconnect() raises nothing in any state, touches
\* nothing else of the client, and a disconnect() that follows a disconnect()
\* changes nothing at all.
C18_DisconnectIdempotent ==
    /\ [](call.kind = "disconnect" =>
             (Idle /\ ~connected /\ ~rest_conn.open /\ ret = RetPyNone))
    /\ [][(Idle /\ call'.kind = "disconnect") =>
             /\ rest_conn'.cls = rest_conn.cls /\ rest_conn'.host = rest_conn.host
             /\ rest_conn'.port = rest_conn.port
             /\ UNCHANGED <<ctrl_host, mode_curl, ctrl_version, username, password,
                            allow_insecure>>
             /\ call.kind = "disconnect" => UNCHANGED client]_vars

\* C18, witness: disconnect() has run on a client that had connected: it holds
\* a transport, now closed, and is Disconnected.
C18_Witness ==
    /\ call.kind = "disconnect" /\ Idle
    /\ rest_conn.cls # "None" /\ ~rest_conn.open /\ ~connected
    /\ PassesCheck(ctrl_version)

\* the with statement has been left: __exit__ has run, or __enter__ raised
ScopeEnded == scope = "exited" \/ ScopeEnterRaised

\* C19: when the scope of "with lin:" has ended, normally, by the error of a
\* call in the body, or by the failure of the connect() of __enter__, the
\* transport is closed and the client is Disconnected.
C19_ScopeReleases == ScopeEnded => (~rest_conn.open /\ ~connected)

\* C20: the stored controller version changes only in the step of connect()
\* that has the answer of its version query in hand; within a request of the
\* caller that happens only after a reconnect, and no disconnect() and no
\* setter changes it.
C20_VersionOnlyInConnect ==
    [][ctrl_version' # ctrl_version =>
          /\ stack # <<>> /\ Top.fn = "connect" /\ Top.pc = "version"
          /\ ret.kind = "list" /\ ret.val # <<>> /\ ctrl_version' = ret.val[1]
          /\ call.kind \in {"connect", "rest"}
          /\ call.kind = "rest" => obs.reconnects >= 1]_vars

\* C20, witness: a request made after a connect() has returned its list
\* without a reconnect, and the version the connect() stored is still there.
C20_Witness ==
    /\ Done("rest") /\ ~mode_curl /\ ret.kind = "list" /\ ret.val # <<>>
    /\ obs.reconnects = 0
    /\ ctrl_version = Wrap("ControllerVersion", VersionObj(API_VERSION_MIN))

-----------------------------------------------------------------------------
(* Operations with local checks: C21 - C24 (SpecOps) *)

\* the stored version is a version, and it is lower than the one op requires
StoredVersionBelow(op) ==
    /\ RequiredVersion(op) # NoVer
    /\ ctrl_version.cls = "ControllerVersion" /\ ctrl_version.data.ver # NoVer
    /\ VersionLess(ctrl_version.data.ver, RequiredVersion(op))

\* C21: an operation that declares a minimum server version, called while the
\* version stored by connect() is lower, has ended at once in the version
\* error: it built no body and nothing has been sent.
C21_VersionGateBeforeIO ==
    (call.kind = "op" /\ StoredVersionBelow(call.apicall)) =>
        /\ Idle
        /\ ret.kind = "exc" /\ ret.exc.type = "LinstorError"
        /\ ret.exc.msg = "Volume modify not supported by server, REST-API-VERSION"
        /\ ~call.body
        /\ ~obs.last_request.sent /\ obs.sends = 0

\* C21, witness: volume_modify was called on a client connected to a
\* controller that advertises 1.0.4 and has ended in the version error.
C21_Witness ==
    /\ call.kind = "op" /\ call.apicall = "volume_modify" /\ Idle
    /\ connected /\ rest_conn.open
    /\ ctrl_version = Wrap("ControllerVersion", VersionObj(<<1, 0, 4>>))
    /\ ret.kind = "exc" /\ ret.exc.type = "LinstorError"

\* the argument of the call fails the validation the operation documents
InvalidArgument ==
    \/ /\ call.apicall = "node_create"
       /\ \/ call.args[1] \notin {"Controller", "Auxiliary", "Combined", "Satellite"}
          \/ call.args[3] = 0 /\ call.args[2] \notin {"PLAIN", "SSL"}
    \/ /\ call.apicall = "storage_pool_create"
       /\ call.args[1] = "BTRFS"
    \/ /\ call.apicall = "resource_group_spawn"
       /\ \E i \in 1..Len(call.args[1]) :
            LET size == call.args[1][i]
            IN  \/ size.t = "float"
                \/ size.t = "str" /\ (~size.digits \/ size.unit = "gx")

\* the stored version, if any, lets the operation of the call through
VersionAllows ==
    \/ ctrl_version = NoneObj
    \/ /\ ctrl_version.cls = "ControllerVersion" /\ ctrl_version.data.ver # NoVer
       /\ ~StoredVersionBelow(call.apicall)

\* C22: an operation called with a value that fails local validation (unknown
\* node type, communication type without default port, unsupported storage
\* driver, unparseable or wrongly typed size) has ended in an argument error,
\* LinstorArgumentError, and no request was sent for it.
C22_InvalidArgumentIsArgumentError ==
    (call.kind = "op" /\ InvalidArgument /\ VersionAllows) =>
        /\ Idle
        /\ ret.kind = "exc" /\ ret.exc.type = "LinstorArgumentError"
        /\ ~obs.last_request.sent /\ obs.sends = 0

\* C22, the part that holds: such a call has ended in an error of the library
\* (LinstorError or its subclass LinstorArgumentError) and nothing was sent.
C22_InvalidArgumentNoRequest ==
    (call.kind = "op" /\ InvalidArgument /\ VersionAllows) =>
        /\ Idle
        /\ ret.kind = "exc" /\ ret.exc.type \in {"LinstorError", "LinstorArgumentError"}
        /\ ~call.body
        /\ ~obs.last_request.sent /\ obs.sends = 0

\* the accessor of the call has ended as C23 says for the list l its listing
\* request returned
AsAccessorsDo(l) ==
    IF l = <<>>
    THEN /\ ret.kind = "exc" /\ ret.exc.type = "LinstorError"
         /\ ret.exc.msg = "No list response received."
    ELSE IF l[1].cls = "ApiCallResponse"
    THEN /\ ret.kind = "exc" /\ ret.exc.type = "LinstorApiCallError"
         /\ ret.exc.causes = <<l[1]>>
    ELSE IF call.apicall \in SimpleAccessors
    THEN /\ ret.kind = "obj" /\ ret.val = <<l[1]>>
         /\ l[1].cls \notin {"ApiCallResponse", "None"}
    ELSE \/ ret.kind = "obj" /\ ret.val[1].cls \notin {"ApiCallResponse", "None"}
         \/ ret.kind = "exc"      \* a later request of the accessor failed

\* C23: every *_raise accessor that got list l from the dispatcher has ended
\* in the declarative LinstorError when l is empty, in an API call error
\* wrapping l[0] when l[0] is a status reply, and else has returned the first
\* element, a structured response.
C23_RaiseAccessors ==
    (call.kind = "op" /\ call.got # <<>> /\ Idle) => AsAccessorsDo(call.got[1])

\* C23, the part that holds: the seven accessors that make one listing request.
C23_SimpleRaiseAccessors ==
    (call.kind = "op" /\ call.got # <<>> /\ Idle /\ call.apicall \in SimpleAccessors)
        => AsAccessorsDo(call.got[1])

\* connect() has run its version check on the version now stored, and has
\* ended with True or with the refusal of that version
CheckedVersion ==
    /\ call.kind = "connect" /\ Idle /\ obs.last_connect.made
    /\ ctrl_version.cls = "ControllerVersion" /\ ctrl_version.data.ver # NoVer
    /\ \/ ret.kind = "True"
       \/ /\ ret.kind = "exc"
          /\ ret.exc.msg = "Client doesn't support Controller rest api version"

\* major version 1, and not lower than 1.0.4
SameMajorNotLower(v) ==
    /\ v[1] = 1
    /\ ~(v[2] < 0 \/ (v[2] = 0 /\ v[3] < 4))

\* C24: the version check of connect() passes exactly when the advertised
\* version has major version 1 and is not lower than 1.0.4; 1.0.3 and the
\* versions of another major family (2.x, 10.x) are refused.
C24_VersionCheckExact ==
    CheckedVersion => (ret.kind = "True" <=> SameMajorNotLower(ctrl_version.data.ver))

\* C24, the part that holds: what connect() refuses is outside major version 1
\* or lower than 1.0.4, and it accepts 1.0.4 and refuses 1.0.3 and 2.0.0.
C24_RefusedIsUnsupported ==
    CheckedVersion =>
        /\ ret.kind = "exc" => ~SameMajorNotLower(ctrl_version.data.ver)
        /\ ctrl_version.data.ver = <<1, 0, 4>> => ret.kind = "True"
        /\ ctrl_version.data.ver \in {<<1, 0, 3>>, <<2, 0, 0>>} => ret.kind = "exc"

-----------------------------------------------------------------------------
(* The transport connect() selects: C25 (SpecTransport) *)

\* the port a 302 answer of the probe points at (0: it answered otherwise)
RedirectPort ==
    CASE obs.last_connect.probe = "redirect" -> 3371
      [] obs.last_connect.probe = "redirect_8443" -> 8443
      [] OTHER -> 0

\* the URI asks for TLS
TlsScheme == ctrl_host.scheme = "linstor+ssl" \/ ctrl_host.scheme = "https"

\* TLS is to be selected: by the scheme, or by the redirect of the plaintext port
TlsExpected == TlsScheme \/ RedirectPort # 0

\* the port to be used
PortExpected ==
    IF ~TlsScheme /\ RedirectPort # 0 THEN RedirectPort
    ELSE IF ctrl_host.port # 0 THEN ctrl_host.port
    ELSE IF TlsScheme THEN 3371 ELSE 3370

\* C25: the transport connect() made is TLS exactly when the scheme is
\* linstor+ssl or https or the plaintext port answered the probe with a 302
\* pointing at a port; its port is the explicit port of the URI, else 3371
\* for a secure and 3370 for a plain scheme, replaced by the redirect's port
\* on upgrade; is_secure_connection reports TLS exactly then.
C25_TransportSelection ==
    (call.kind = "connect" /\ obs.last_connect.made) =>
        /\ rest_conn.cls = "HTTPSConnection" <=> TlsExpected
        /\ rest_conn.cls = "HTTPConnection" <=> ~TlsExpected
        /\ rest_conn.port = PortExpected
        /\ is_secure_connection <=> TlsExpected

\* C25, witness: connect() on linstor://h:4000 was redirected to port 8443,
\* made a TLS transport to it and has connected.
C25_Witness ==
    /\ call.kind = "connect" /\ Idle /\ connected /\ ret.kind = "True"
    /\ ctrl_host.scheme = "linstor" /\ ctrl_host.port = 4000
    /\ obs.last_connect.probe = "redirect_8443"
    /\ rest_conn.cls = "HTTPSConnection" /\ rest_conn.port = 8443 /\ is_secure_connection

-----------------------------------------------------------------------------
(* Transport compression: C26 (SpecDecode) *)

\* the same payload, sent uncompressed and without the Content-Encoding header
Uncompressed(response) == [response EXCEPT !.gzip = FALSE, !.z = FALSE]

-----------------------------------------------------------------------------
(* Request headers: C27 (Spec) *)

\* the three headers of the client, and Authorization exactly with a username
CarriesClientHeaders(headers) ==
    /\ "User-Agent: PythonLinstor" \in headers
    /\ "Connection: keep-alive" \in headers
    /\ "Accept-Encoding: gzip" \in headers
    /\ "Authorization: Basic" \in headers <=> username # None

\* C27: every request the client has sent during the call, the probe of
\* connect() and the retried request after a reconnect included, carries
\* User-Agent, Connection: keep-alive and Accept-Encoding: gzip, and Basic
\* Authorization exactly when a username is set.
C27_EveryRequestCarriesHeaders ==
    /\ obs.last_request.sent => CarriesClientHeaders(obs.last_request.headers)
    /\ obs.last_connect.probe_requests > 0 =>
          CarriesClientHeaders(obs.last_connect.probe_headers)

\* C27, the part that holds: every request sent by _rest_request, the version
\* query of connect() and the retried request included, carries them.
C27_DispatchedRequestsCarryHeaders ==
    obs.last_request.sent => CarriesClientHeaders(obs.last_request.headers)

-----------------------------------------------------------------------------
(* The expansion of a controller list: C28 (SpecUriList) *)

\* where the entries of the list end: at its commas and behind its last character
Ends == {i \in 1..Len(dec_in) : dec_in[i] = ","} \cup {Len(dec_in) + 1}

\* the k-th end, from the left
EndAt(k) == CHOOSE e \in Ends : Cardinality({d \in Ends : d < e}) = k - 1

\* the k-th entry of the list
Entry(k) == SubSeq(dec_in, IF k = 1 THEN 1 ELSE EndAt(k - 1) + 1, EndAt(k) - 1)

\* the URI of a non-empty entry
UriOf(entry) ==
    IF \E i \in 1..(Len(entry) - 2) : SubSeq(entry, i, i + 2) = <<":", "/", "/">>
    THEN entry
    ELSE <<"l", "i", "n", "s", "t", "o", "r", ":", "/", "/">> \o entry

\* C28: controller_uri_list returns one URI per non-empty entry of the
\* comma-separated list, in the order of the entries: the entry itself when
\* it contains '://', else linstor:// followed by the entry; empty entries
\* are skipped.
C28_UriListExpansion ==
    dec_out # RetNone =>
        LET entries == [k \in 1..Cardinality(Ends) |-> Entry(k)]
            nonempty == SelectSeq(entries, LAMBDA entry : entry # <<>>)
        IN  dec_out = RetList([k \in 1..Len(nonempty) |-> UriOf(nonempty[k])])

\* C28, witness: ",h,://" was expanded to linstor://h and ://, the empty
\* first entry skipped.
C28_Witness ==
    /\ dec_in = <<",", "h", ",", ":", "/", "/">>
    /\ dec_out = RetList(<< <<"l", "i", "n", "s", "t", "o", "r", ":", "/", "/", "h">>,
                            <<":", "/", "/">> >>)

-----------------------------------------------------------------------------
(* The result of disconnect(): C29 (Spec) *)

\* C29: every disconnect() returns True when the client was connected at the
\* call, and False when it was not.
C29_DisconnectReportsState ==
    [][call'.kind = "disconnect" => ret'.kind = (IF connected THEN "True" ELSE "False")]_vars

-----------------------------------------------------------------------------
(* return_if_failure, return_if_error: C30 (SpecReplies) *)

\* some reply of the input is of a category in bad / outside good
SomeReplyNot(good) == \E i \in 1..Len(dec_in.replies) : dec_in.replies[i] \notin good

\* C30: return_if_failure has returned None when a reply is not a success
\* and all given replies otherwise; return_if_error has returned None when a
\* reply is an error and all given replies otherwise.
C30_ReturnIfDocumented ==
    dec_out # RetNone =>
        LET bad == IF dec_in.fn = "return_if_failure" THEN SomeReplyNot({"success"})
                   ELSE SomeReplyNot({"success", "warning"})
        IN  dec_out = IF bad THEN RetPyNone ELSE RetList(dec_in.replies)

\* C30, what the functions do: they return the replies when one of them is
\* not a success (is an error), and None otherwise.
C30_ReturnIfImplemented ==
    dec_out # RetNone =>
        LET bad == IF dec_in.fn = "return_if_failure" THEN SomeReplyNot({"success"})
                   ELSE SomeReplyNot({"success", "warning"})
        IN  dec_out = IF bad THEN RetList(dec_in.replies) ELSE RetPyNone

-----------------------------------------------------------------------------
(* resource_delete_if_diskless: C31 (SpecOps) *)

\* a DELETE of the resource has been sent during the call
DeleteSent == \E i \in 1..Len(obs.wire) : obs.wire[i] = "API_DEL_RSC"

\* the list the call got shows the resource, flagged DISKLESS
ShownDiskless ==
    /\ call.got # <<>> /\ call.got[1] # <<>>
    /\ call.got[1][1].cls = "ResourceResponse"
    /\ call.got[1][1].data.items # <<>>
    /\ call.got[1][1].data.items[1].id = 1

\* the list the call got starts with a status reply
StatusListed ==
    call.got # <<>> /\ call.got[1] # <<>> /\ call.got[1][1].cls = "ApiCallResponse"

-----------------------------------------------------------------------------
(* The transport of the retried request: C32 (Spec) *)

\* C32: the request of the call made again after a reconnect is never sent on
\* the transport the first attempt failed on: connect() has replaced the
\* handle before.
C32_RetryOnNewTransport ==
    (obs.last_request.sent /\ obs.last_request.retry) => ~obs.last_request.stale

\* C32, witness: the read of the caller's request failed, the client
\* reconnected, and the request was sent again, on the new transport, and
\* answered.
C32_Witness ==
    /\ call.kind = "rest" /\ Idle /\ ret.kind = "list"
    /\ obs.read_failures # <<>> /\ obs.reconnects >= 1 /\ obs.sends = 2
    /\ obs.last_request.sent /\ obs.last_request.retry /\ ~obs.last_request.stale

-----------------------------------------------------------------------------
(* What the caller sees of a retry: C33 (Spec) *)

\* the requests of the call that are not version queries of connect()
OwnRequests == SelectSeq(obs.wire, LAMBDA a : a # "API_VERSION")

\* the call made again sends the request of the first attempt; a call that
\* read a response to its request ends in the classification of that response,
\* and a call that read none ends in an error
RetryInvisible ==
    /\ call.kind = "rest" =>
          \A i \in 1..Len(OwnRequests) : OwnRequests[i] = call.apicall
    /\ (call.kind = "rest" /\ Idle /\ obs.answer # <<>>) =>
          ret = HandleResponse(call.apicall, Method(call.apicall), Path(call.apicall),
                               obs.answer[1])
    /\ (call.kind = "rest" /\ Idle /\ obs.answer = <<>> /\ ~call.curl) => ret.kind = "exc"

\* C33: a reconnect-and-retry that succeeds is invisible: the call made again
\* sends the same request and the caller gets the classification of its
\* response; every other failure is raised: a call that returns without an
\* error has swallowed at most the one failed read of its own request.
C33_OnlyOneRetrySwallowed ==
    /\ RetryInvisible
    /\ (call.kind = "rest" /\ Idle /\ ret.kind # "exc") =>
          (obs.reconnects <= 1 /\ obs.reconnects = Len(obs.read_failures))

\* C33, the part that holds.
C33_RetryInvisible == RetryInvisible

-----------------------------------------------------------------------------
(* A response that cannot be parsed: C34 (Spec) *)

\* the body of response r, as declared and decompressed, is no JSON
NotJson(r) == (r.gzip = r.z /\ r.text.k # "json") \/ (~r.gzip /\ r.z)

\* C34: the step that reads, as the answer to the caller's request, a response
\* with status < 400 whose body is no JSON ends the call in the
\* malformed-response error with the request path and the HTTP status; it
\* starts no reconnect and no retry and leaves the connected flag and the
\* transport as they were.
C34_MalformedResponse ==
    [][(call.kind = "rest" /\ obs.answer = <<>> /\ obs'.answer # <<>>
            /\ obs'.answer[1].status < 400 /\ NotJson(obs'.answer[1])) =>
         /\ stack' = <<>>
         /\ ret'.kind = "exc" /\ ret'.exc.type = "LinstorError"
         /\ ret'.exc.msg = "Unable to parse REST json data"
         /\ ret'.exc.path = Path(call.apicall)
         /\ ret'.exc.status = obs'.answer[1].status
         /\ connected' = connected /\ rest_conn' = rest_conn
         /\ obs'.reconnects = obs.reconnects /\ obs'.wire = obs.wire]_vars

\* C34, witness: a connected client got bytes that are no JSON with status
\* 200, and its call has ended in the malformed-response error.
C34_Witness ==
    /\ call.kind = "rest" /\ Idle /\ connected /\ rest_conn.open
    /\ obs.answer = <<Response(200, FALSE, FALSE, TextGarbage)>>
    /\ ret.kind = "exc" /\ ret.exc.type = "LinstorError" /\ ret.exc.status = 200

-----------------------------------------------------------------------------
(* The connected flag during a call: C35 (Spec) *)

\* C35: no step of a call made through _rest_request sets the connected flag
\* to false: a step leaves the flag as it was, or sets it to true at the end
\* of a connect() that a retry handler started. So a call that failed leaves
\* the flag at the value it had before the call, or true after a reconnect.
C35_FailedCallKeepsConnected ==
    [][(call.kind = "rest" /\ stack # <<>>) =>
          \/ connected' = connected
          \/ connected' /\ obs.reconnects > 0 /\ Top.fn = "connect"]_vars

\* C35, witness: the read of a Connected client failed, the reconnect failed
\* too, the call has ended in the network error, and the client is still
\* Connected.
C35_Witness ==
    /\ call.kind = "rest" /\ Idle /\ connected
    /\ obs.read_failures # <<>> /\ obs.reconnects = 1 /\ obs.sends = 1
    /\ ret.kind = "exc" /\ ret.exc.type = "LinstorNetworkError"

-----------------------------------------------------------------------------
(* MultiLinstor.connect and an endpoint that refuses the version: C36 (Spec) *)

\* the error of lines 488-491
VersionError ==
    Exc("LinstorApiCallError", "Client doesn't support Controller rest api version")

\* C36: the errors that moved MultiLinstor.connect() on to a next endpoint are
\* network errors, one per endpoint it left; and when an endpoint's connect
\* raised the version error, connect() ended in that very error at that
\* endpoint: the endpoint is the last one a connect ran for, it is the one the
\* client points at, and the loop went to no endpoint after it.
C36_VersionErrorEndsFailover ==
    (Done("connect") /\ multi /\ ~mode_curl) =>
        /\ \A i \in 1..Len(obs.multi_errors) : IsNetworkError(obs.multi_errors[i])
        /\ ret = Raise(VersionError) =>
              LET k == obs.multi_index
              IN  /\ Len(obs.multi_errors) = k - 1
                  /\ obs.tried # <<>>
                  /\ obs.tried[Len(obs.tried)] = rest_conn.host
                  /\ ctrl_host = ctrl_host_list[rest_conn.host]
                  /\ HasVersion(ctrl_version) /\ VersionRefused(ctrl_version.data.ver)
                  /\ obs.reconnects = 0 =>
                        /\ rest_conn.host = k
                        /\ obs.tried = [j \in 1..k |-> j]

\* C36, witness: the first endpoint of a two-endpoint list refused the
\* version; connect() ended in the version error and the second endpoint was
\* never tried.
C36_Witness ==
    /\ Done("connect") /\ multi /\ Len(ctrl_host_list) = 2
    /\ ret = Raise(VersionError)
    /\ obs.multi_index = 1 /\ obs.tried = <<1>> /\ obs.multi_errors = <<>>

-----------------------------------------------------------------------------
(* The reconnect of a MultiLinstor: C37 (Spec) *)

\* C37: in a call of a MultiLinstor made through _rest_request, the connects
\* the retry handler runs start at the first endpoint of the list and go
\* through the list in order; the request made again is sent to the endpoint
\* that failover ended at, which is the endpoint the client then points at.
C37_ReconnectRunsFailover ==
    (multi /\ call.kind = "rest" /\ ~call.curl) =>
        /\ obs.tried # <<>> => obs.tried[1] = 1
        /\ obs.reconnects = 1 => \A j \in 1..Len(obs.tried) : obs.tried[j] = j
        /\ Len(obs.sent_to) = 2 =>
              /\ obs.tried # <<>>
              /\ obs.sent_to[2] = obs.tried[Len(obs.tried)]
              /\ Idle => (rest_conn.host = obs.sent_to[2]
                            /\ ctrl_host = ctrl_host_list[obs.sent_to[2]])

\* C37, witness: the first attempt of a connected keep-alive MultiLinstor went
\* to the second endpoint, its read failed, and the request made again went to
\* the first endpoint, which answered; the caller has its result and the
\* client is Connected to the first endpoint.
C37_Witness ==
    /\ multi /\ keep_alive /\ call.kind = "rest" /\ Idle /\ connected
    /\ obs.reconnects = 1
    /\ obs.sent_to = <<2, 1>>
    /\ rest_conn.host = 1 /\ ctrl_host = ctrl_host_list[1]
    /\ ret.kind # "exc"

-----------------------------------------------------------------------------
(* resource_create_and_auto_place: C38 (SpecOps) *)

PlaceOrder == <<"API_CRT_RSC_DFN", "API_CRT_VLM_DFN", "API_AUTO_PLACE_RSC">>

Placing == call.kind = "op" /\ call.apicall = "resource_create_and_auto_place"

\* the replies of the n-th step came back and their first one is a success
StepSucceeded(n) ==
    Len(call.got) >= n /\ call.got[n] # <<>> /\ call.got[n][1].data = StatusObj(0)

\* the requests went out in the order of PlaceOrder, each after the success of
\* the one before it
PlacedInOrder ==
    /\ Len(obs.wire) <= 3
    /\ \A n \in 1..Len(obs.wire) :
          obs.wire[n] = PlaceOrder[n] /\ (n > 1 => StepSucceeded(n - 1))

\* C38: resource_create_and_auto_place sends resource-definition create,
\* volume-definition create and auto-place in this order, each only after the
\* step before it came back with a success as its first reply; once a step has
\* come back with replies whose first one is no success, the call ends and
\* returns the replies of that step.
C38_StopsAtFirstFailure ==
    Placing =>
        /\ PlacedInOrder
        /\ (Idle /\ call.got # <<>> /\ ~StepSucceeded(Len(call.got))) =>
              ret = RetList(call.got[Len(call.got)])

\* C38 for the steps that came back with one reply or more
C38_StopsAtFirstFailureReply ==
    Placing =>
        /\ PlacedInOrder
        /\ (Idle /\ call.got # <<>> /\ ~StepSucceeded(Len(call.got))
               /\ call.got[Len(call.got)] # <<>>) =>
              ret = RetList(call.got[Len(call.got)])

\* the volume-definition create came back with an error as its first reply
\* and the call returned these replies without an auto-place
C38_StoppedAtSecond ==
    /\ Placing /\ Idle
    /\ obs.wire = <<"API_CRT_RSC_DFN", "API_CRT_VLM_DFN">>
    /\ Len(call.got) = 2 /\ StepSucceeded(1) /\ ~StepSucceeded(2)
    /\ ret = RetList(call.got[2])

-----------------------------------------------------------------------------
(* connect() in dry-run mode: C39 (SpecOps) *)

\* C39: connect() in dry-run mode returns True in one step that sets the
\* connected flag and changes nothing else: no probe, no transport, no
\* request, no controller version; and while the client holds no controller
\* version, no operation ends in the error of the version gate.
C39_DryRunConnect ==
    /\ [][(stack # <<>> /\ Top.fn = "connect" /\ mode_curl) =>
              /\ connected' /\ stack' = Pop /\ ret' = RetTrue
              /\ rest_conn' = rest_conn /\ ctrl_version' = ctrl_version
              /\ ctrl_host' = ctrl_host /\ obs' = obs]_vars
    /\ []((call.kind = "op" /\ ctrl_version = NoneObj) => ret # Raise(VersionTooLow))

\* C39, witness: a client that was connected in dry-run mode only (Connected,
\* no transport, no controller version) has made an operation that requires a
\* controller version, and the operation went through to its dry-run result.
C39_Witness ==
    /\ mode_curl /\ connected /\ rest_conn = NoConn /\ ctrl_version = NoneObj
    /\ call.kind = "op" /\ call.apicall \in PlainVersionedOps
    /\ RequiredVersion(call.apicall) # NoVer
    /\ Idle /\ ret = RetList(<<>>)

====
